---- MODULE Spec2Model ----
(***************************************************************************)
(* Model of the spreadsheet health-metric extraction worker                *)
(* (src/workers/excelParser.js).                                           *)
(*                                                                         *)
(* Encoding of JavaScript values                                           *)
(*   - a cell of the sheet grid is a record: NullCell, Num(n) or Str(s),   *)
(*     where s is the cell text as a sequence of one-character strings;    *)
(*   - an instant (a Date, or the ISO string made from it) is a positive   *)
(*     integer number of ticks, TicksPerDay ticks to a day; NoTs (0)       *)
(*     stands for a null timestamp;                                        *)
(*   - null and undefined numbers are the sentinels NullV and absence      *)
(*     from the domain of a record/function;                               *)
(*   - numbers are integers.                                               *)
(***************************************************************************)
EXTENDS Integers, Sequences, FiniteSets, TLC

\* -------------------------------------------------------------------------
\* Bounds of the model
\* -------------------------------------------------------------------------
MaxSheets == 2
MaxRows == 2
MaxRowsBeyondScan == 2
MaxSerial == 2
TicksPerDay == 2

\* -------------------------------------------------------------------------
\* Program constants
\* -------------------------------------------------------------------------
MAX_RAW_ITEMS == 100
HEADER_SCAN_ROWS == 20
BP_SYS_MIN == 40
BP_SYS_MAX == 300
BP_DIA_MIN == 20
BP_DIA_MAX == 200

NoTs == 0
NullV == 0 - 1
NullSample == [isNull |-> TRUE]
NoDate == [ok |-> FALSE]
SomeDate(t) == [ok |-> TRUE, t |-> t]

NullCell == [kind |-> "null"]
Num(n) == [kind |-> "num", v |-> n]
Str(s) == [kind |-> "str", s |-> s]

\* cell === null || cell === undefined || cell === ""
IsBlank(cell) == cell.kind = "null" \/ (cell.kind = "str" /\ cell.s = <<>>)

\* -------------------------------------------------------------------------
\* PARAMETER_MAP / PARAMETER_META
\* -------------------------------------------------------------------------
Param(key, unit, min, max, timeline) ==
  [key |-> key, unit |-> unit, hasRange |-> TRUE, min |-> min, max |-> max, timeline |-> timeline]

ParamNoRange(key, unit) ==
  [key |-> key, unit |-> unit, hasRange |-> FALSE, min |-> 0, max |-> 0, timeline |-> FALSE]

PARAMETER_MAP ==
  << Param("weight", "kg", 20, 400, TRUE),
     Param("heartRate", "bpm", 20, 260, TRUE),
     Param("oxygenSaturation", "%", 40, 100, TRUE),
     Param("ldl", "mmol/L", 0, 20, TRUE),
     Param("hdl", "mmol/L", 0, 20, TRUE),
     Param("totalCholesterol", "mmol/L", 0, 25, TRUE),
     Param("triglycerides", "mmol/L", 0, 50, TRUE),
     Param("glucose", "mmol/L", 0, 100, TRUE),
     Param("egfr", "mL/min", 0, 200, TRUE),
     Param("steps", "steg", 0, 200000, TRUE),
     Param("sleep", "h", 0, 24, TRUE),
     Param("bloodPressureSys", "mmHg", 40, 300, FALSE),
     Param("bloodPressureDia", "mmHg", 20, 200, FALSE),
     ParamNoRange("bloodPressureCombined", "mmHg"),
     Param("afBurden", "%", 0, 100, TRUE) >>

ParamKeys == {PARAMETER_MAP[i].key : i \in DOMAIN PARAMETER_MAP}

PARAMETER_META(key) ==
  PARAMETER_MAP[CHOOSE i \in DOMAIN PARAMETER_MAP : PARAMETER_MAP[i].key = key]

\* -------------------------------------------------------------------------
\* createEmptyMetrics
\* -------------------------------------------------------------------------
LatestKeys ==
  {"bloodPressure", "heartRate", "oxygenSaturation", "weight", "rhythm", "ldl", "hdl",
   "totalCholesterol", "triglycerides", "glucose", "egfr", "steps", "sleep"}

TrendKeys ==
  {"bloodPressure", "heartRate", "oxygenSaturation", "weight", "ldl", "hdl",
   "totalCholesterol", "triglycerides", "glucose", "egfr", "steps", "sleep", "afBurden"}

createEmptyMetrics ==
  [latest |-> [k \in LatestKeys |-> NullSample],
   trends |-> [k \in TrendKeys |-> <<>>]]

\* metrics.latest[key]: undefined (absent key) and null are both falsy
LatestOf(metrics, key) ==
  IF key \in DOMAIN metrics.latest THEN metrics.latest[key] ELSE NullSample

TrendOf(metrics, key) ==
  IF key \in DOMAIN metrics.trends THEN metrics.trends[key] ELSE <<>>

SetLatest(metrics, key, sample) ==
  [metrics EXCEPT !.latest =
     [k \in DOMAIN metrics.latest \cup {key} |-> IF k = key THEN sample ELSE metrics.latest[k]]]

PushTrend(metrics, key, entry) ==
  [metrics EXCEPT !.trends =
     [k \in DOMAIN metrics.trends \cup {key} |->
        IF k = key THEN Append(TrendOf(metrics, key), entry) ELSE metrics.trends[k]]]

\* -------------------------------------------------------------------------
\* Text of a cell: a sequence of characters over the alphabet
\* digits, " ", "/", "-" (only as a separator inside a text), letters.
\* -------------------------------------------------------------------------
DigitChars == {"0", "1", "2", "3", "4", "5", "6", "7", "8", "9"}

IsDigit(c) == c \in DigitChars

\* \s
IsSpace(c) == c = " "

DigitVal(c) ==
  CASE c = "0" -> 0 [] c = "1" -> 1 [] c = "2" -> 2 [] c = "3" -> 3 [] c = "4" -> 4
    [] c = "5" -> 5 [] c = "6" -> 6 [] c = "7" -> 7 [] c = "8" -> 8 [] c = "9" -> 9

\* parseInt(digits, 10) / Number(digits) on a non-empty run of digits
RECURSIVE ParseInt(_)
ParseInt(ds) ==
  IF ds = <<>> THEN 0
  ELSE 10 * ParseInt(SubSeq(ds, 1, Len(ds) - 1)) + DigitVal(ds[Len(ds)])

AllDigits(s) == \A i \in DOMAIN s : IsDigit(s[i])

\* value.replace(/\s+/g, "")
StripSpaces(s) == SelectSeq(s, LAMBDA c : ~IsSpace(c))

\* value.trim()
RECURSIVE TrimLeft(_)
TrimLeft(s) == IF s # <<>> /\ IsSpace(s[1]) THEN TrimLeft(Tail(s)) ELSE s

RECURSIVE TrimRight(_)
TrimRight(s) ==
  IF s # <<>> /\ IsSpace(s[Len(s)]) THEN TrimRight(SubSeq(s, 1, Len(s) - 1)) ELSE s

Trim(s) == TrimRight(TrimLeft(s))

NoNum == [ok |-> FALSE]
SomeNum(n) == [ok |-> TRUE, n |-> n]

\* parseNumber: numeric cells pass through, strings are trimmed, stripped of
\* whitespace and coerced with Number(); over the cell alphabet Number() yields
\* a number exactly for a non-empty run of digits.
parseNumber(cell) ==
  IF cell.kind = "num" THEN SomeNum(cell.v)
  ELSE IF cell.kind = "null" THEN NoNum
  ELSE LET trimmed == Trim(cell.s)
           normalized == StripSpaces(trimmed)
       IN IF trimmed = <<>> THEN NoNum
          ELSE IF AllDigits(normalized) THEN SomeNum(ParseInt(normalized))
          ELSE NoNum

\* A match of /(\d{2,3})[\/\-](\d{2,3})/ starting at i with groups of d1 and d2 digits
BpMatchAt(s, i, d1, d2) ==
  /\ i + d1 + d2 <= Len(s)
  /\ \A j \in i .. (i + d1 - 1) : IsDigit(s[j])
  /\ s[i + d1] \in {"/", "-"}
  /\ \A j \in (i + d1 + 1) .. (i + d1 + d2) : IsDigit(s[j])

\* String.prototype.match: leftmost start, then greedy first group, then greedy second group
BpFirstMatch(s) ==
  LET starts == {i \in DOMAIN s : \E d1, d2 \in {2, 3} : BpMatchAt(s, i, d1, d2)}
  IN IF starts = {} THEN [found |-> FALSE]
     ELSE LET i == CHOOSE m \in starts : \A o \in starts : m <= o
              d1 == IF \E d2 \in {2, 3} : BpMatchAt(s, i, 3, d2) THEN 3 ELSE 2
              d2 == IF BpMatchAt(s, i, d1, 3) THEN 3 ELSE 2
          IN [found |-> TRUE,
              g1 |-> SubSeq(s, i, i + d1 - 1),
              g2 |-> SubSeq(s, i + d1 + 1, i + d1 + d2)]

NoBp == [ok |-> FALSE]

parseBloodPressureCompound(cell) ==
  IF cell.kind # "str" THEN NoBp
  ELSE LET normalized == StripSpaces(cell.s)
           match == BpFirstMatch(normalized)
       IN IF ~match.found THEN NoBp
          ELSE [ok |-> TRUE, systolic |-> ParseInt(match.g1), diastolic |-> ParseInt(match.g2)]

\* parseDateValue on the cells of the model: a numeric cell is a spreadsheet
\* date serial (XLSX.SSF.parse_date_code), converted to the instant of that day.
parseDateValue(cell) ==
  IF cell.kind = "num" /\ cell.v >= 1 THEN SomeDate(cell.v * TicksPerDay)
  ELSE NoDate

\* value.trim().match(/^(\d{1,2})[:.](\d{2})(?:[:.](\d{2}))?$/) with the
\* range test on hours, minutes and seconds; the time of day in whole ticks
TimeOfDayText(s) ==
  LET t == Trim(s)
      h == IF Len(t) >= 2 /\ IsDigit(t[2]) THEN 2 ELSE 1
      rest == SubSeq(t, h + 1, Len(t))
      group(r) == Len(r) = 3 /\ r[1] \in {":", "."} /\ IsDigit(r[2]) /\ IsDigit(r[3])
  IN IF /\ t # <<>> /\ IsDigit(t[1])
        /\ \/ group(rest)
           \/ Len(rest) = 6 /\ group(SubSeq(rest, 1, 3)) /\ group(SubSeq(rest, 4, 6))
        /\ ParseInt(SubSeq(t, 1, h)) < 24
        /\ ParseInt(SubSeq(rest, 2, 3)) < 60
        /\ (Len(rest) = 6 => ParseInt(SubSeq(rest, 5, 6)) < 60)
     THEN SomeDate((ParseInt(SubSeq(t, 1, h)) * TicksPerDay) \div 24)
     ELSE NoDate

\* parseTimeValue on the cells of the model: a numeric cell is a day fraction,
\* and an integral number of days has time of day 00:00:00; a text is a time
\* of day written H:MM or H:MM:SS.
parseTimeValue(cell) ==
  IF cell.kind = "num" THEN SomeDate(0)
  ELSE IF cell.kind = "str" THEN TimeOfDayText(cell.s)
  ELSE NoDate

\* combineDateAndTime: the day of datePart (or of the clock when there is none)
\* with the time of day of timePart
combineDateAndTime(datePart, timePart, now) ==
  IF ~datePart.ok /\ ~timePart.ok THEN NoDate
  ELSE LET base == IF datePart.ok THEN datePart.t ELSE now
       IN IF timePart.ok
          THEN SomeDate((base \div TicksPerDay) * TicksPerDay + (timePart.t % TicksPerDay))
          ELSE SomeDate(base)

CellAt(row, index) == IF index \in DOMAIN row THEN row[index] ELSE NullCell

\* The parser deriveTimestamp applies to a column of the given role
ParseByRole(role, cell) ==
  IF role = "time" THEN parseTimeValue(cell) ELSE parseDateValue(cell)

\* First descriptor of the given role whose cell parses
FirstParsed(row, descriptors, role) ==
  LET hits == {i \in DOMAIN descriptors :
                 descriptors[i].role = role
                 /\ ParseByRole(role, CellAt(row, descriptors[i].index)).ok}
  IN IF hits = {} THEN NoDate
     ELSE ParseByRole(role, CellAt(row, descriptors[CHOOSE i \in hits : \A o \in hits : i <= o].index))

\* deriveTimestamp trying the date and time columns before the datetime columns
deriveTimestampDateFirst(row, descriptors, now) ==
  LET dt == FirstParsed(row, descriptors, "datetime")
      datePart == FirstParsed(row, descriptors, "date")
      timePart == FirstParsed(row, descriptors, "time")
  IN IF datePart.ok \/ timePart.ok THEN combineDateAndTime(datePart, timePart, now)
     ELSE dt

deriveTimestamp(row, descriptors, now) ==
  LET dt == FirstParsed(row, descriptors, "datetime")
      datePart == FirstParsed(row, descriptors, "date")
      timePart == FirstParsed(row, descriptors, "time")
  IN IF dt.ok THEN dt
     ELSE IF ~datePart.ok /\ ~timePart.ok THEN NoDate
     ELSE combineDateAndTime(datePart, timePart, now)

\* The keys of rowValues that descriptor d assigns for this row, with their values
Assigned(row, d) ==
  LET rawValue == CellAt(row, d.index)
  IN IF d.matcher = "none" \/ IsBlank(rawValue) THEN <<>>
     ELSE IF d.matcher = "bloodPressureCombined"
       THEN LET bp == parseBloodPressureCompound(rawValue)
            IN IF bp.ok THEN [systolic |-> bp.systolic, diastolic |-> bp.diastolic] ELSE <<>>
     ELSE LET num == parseNumber(rawValue)
              k == IF d.matcher = "bloodPressureSys" THEN "systolic"
                   ELSE IF d.matcher = "bloodPressureDia" THEN "diastolic"
                   ELSE d.matcher
          IN IF num.ok THEN [x \in {k} |-> num.n] ELSE <<>>

\* extractRowValues: one pass over the descriptors in column order, so that the
\* value of a key is the one assigned by the last descriptor that assigns it
extractRowValues(row, descriptors) ==
  LET writers(k) == {i \in DOMAIN descriptors : k \in DOMAIN Assigned(row, descriptors[i])}
      keys == UNION {DOMAIN Assigned(row, descriptors[i]) : i \in DOMAIN descriptors}
      last(k) == LET w == writers(k) IN CHOOSE i \in w : \A o \in w : o <= i
  IN [k \in keys |-> Assigned(row, descriptors[last(k)])[k]]

\* -------------------------------------------------------------------------
\* MetricAggregator
\* -------------------------------------------------------------------------

\* shouldReplaceLatest with a strict comparison of the timestamps
shouldReplaceLatestStrictTime(current, timestamp, order) ==
  IF current = NullSample THEN TRUE
  ELSE IF timestamp # NoTs /\ current.timestamp # NoTs THEN timestamp > current.timestamp
  ELSE IF timestamp # NoTs /\ current.timestamp = NoTs THEN TRUE
  ELSE IF timestamp = NoTs /\ current.timestamp # NoTs THEN FALSE
  ELSE order >= current.order

\* shouldReplaceLatest with a strict comparison of the sequence numbers
shouldReplaceLatestStrictOrder(current, timestamp, order) ==
  IF current = NullSample THEN TRUE
  ELSE IF timestamp # NoTs /\ current.timestamp # NoTs THEN timestamp >= current.timestamp
  ELSE IF timestamp # NoTs /\ current.timestamp = NoTs THEN TRUE
  ELSE IF timestamp = NoTs /\ current.timestamp # NoTs THEN FALSE
  ELSE order > current.order

\* shouldReplaceLatest without the case that keeps a timestamped current value
shouldReplaceLatestBySequence(current, timestamp, order) ==
  IF current = NullSample THEN TRUE
  ELSE IF timestamp # NoTs /\ current.timestamp # NoTs THEN timestamp >= current.timestamp
  ELSE IF timestamp # NoTs /\ current.timestamp = NoTs THEN TRUE
  ELSE order >= current.order

\* shouldReplaceLatest(current, timestamp, order)
shouldReplaceLatest(current, timestamp, order) ==
  IF current = NullSample THEN TRUE
  ELSE IF timestamp # NoTs /\ current.timestamp # NoTs THEN timestamp >= current.timestamp
  ELSE IF timestamp # NoTs /\ current.timestamp = NoTs THEN TRUE
  ELSE IF timestamp = NoTs /\ current.timestamp # NoTs THEN FALSE
  ELSE order >= current.order

\* addNumericSample without the check against the upper bound
addNumericSampleNoMax(metrics, key, value, timestamp, order, meta) ==
  IF key \notin ParamKeys THEN metrics
  ELSE LET def == PARAMETER_META(key)
       IN IF def.hasRange /\ value < def.min THEN metrics
          ELSE LET withTrend ==
                     IF def.timeline /\ timestamp # NoTs
                     THEN PushTrend(metrics, key,
                                    [value |-> value, timestamp |-> timestamp, sheet |-> meta.sheetName])
                     ELSE metrics
                   current == LatestOf(metrics, key)
               IN IF shouldReplaceLatest(current, timestamp, order)
                  THEN SetLatest(withTrend, key,
                                 [value |-> value, timestamp |-> timestamp,
                                  unit |-> def.unit, order |-> order])
                  ELSE withTrend

\* addNumericSample(metrics, key, value, timestamp, order, meta)
addNumericSample(metrics, key, value, timestamp, order, meta) ==
  IF key \notin ParamKeys THEN metrics
  ELSE LET def == PARAMETER_META(key)
       IN IF def.hasRange /\ value < def.min THEN metrics
          ELSE IF def.hasRange /\ value > def.max THEN metrics
          ELSE LET withTrend ==
                     IF def.timeline /\ timestamp # NoTs
                     THEN PushTrend(metrics, key,
                                    [value |-> value, timestamp |-> timestamp, sheet |-> meta.sheetName])
                     ELSE metrics
                   current == LatestOf(metrics, key)
               IN IF shouldReplaceLatest(current, timestamp, order)
                  THEN SetLatest(withTrend, key,
                                 [value |-> value, timestamp |-> timestamp,
                                  unit |-> def.unit, order |-> order])
                  ELSE withTrend

Has(rowValues, k) == k \in DOMAIN rowValues

\* addBloodPressureSample without the plausibility checks
addBloodPressureSampleUnchecked(metrics, rowValues, timestamp, order, meta) ==
  LET hasSys == Has(rowValues, "systolic")
      hasDia == Has(rowValues, "diastolic")
  IN IF ~hasSys /\ ~hasDia THEN metrics
     ELSE LET withTrend ==
                IF timestamp # NoTs /\ hasSys /\ hasDia
                THEN PushTrend(metrics, "bloodPressure",
                               [systolic |-> rowValues.systolic, diastolic |-> rowValues.diastolic,
                                timestamp |-> timestamp, sheet |-> meta.sheetName])
                ELSE metrics
              current == LatestOf(metrics, "bloodPressure")
          IN IF shouldReplaceLatest(current, timestamp, order)
             THEN SetLatest(withTrend, "bloodPressure",
                    [systolic |-> IF hasSys THEN rowValues.systolic
                                  ELSE IF current # NullSample THEN current.systolic ELSE NullV,
                     diastolic |-> IF hasDia THEN rowValues.diastolic
                                   ELSE IF current # NullSample THEN current.diastolic ELSE NullV,
                     unit |-> "mmHg", timestamp |-> timestamp, order |-> order])
             ELSE withTrend

\* addBloodPressureSample storing null for the side the row does not supply
addBloodPressureSampleNoMerge(metrics, rowValues, timestamp, order, meta) ==
  LET hasSys == Has(rowValues, "systolic")
      hasDia == Has(rowValues, "diastolic")
  IN IF hasSys /\ (rowValues.systolic < BP_SYS_MIN \/ rowValues.systolic > BP_SYS_MAX) THEN metrics
     ELSE IF hasDia /\ (rowValues.diastolic < BP_DIA_MIN \/ rowValues.diastolic > BP_DIA_MAX) THEN metrics
     ELSE IF ~hasSys /\ ~hasDia THEN metrics
     ELSE LET withTrend ==
                IF timestamp # NoTs /\ hasSys /\ hasDia
                THEN PushTrend(metrics, "bloodPressure",
                               [systolic |-> rowValues.systolic, diastolic |-> rowValues.diastolic,
                                timestamp |-> timestamp, sheet |-> meta.sheetName])
                ELSE metrics
              current == LatestOf(metrics, "bloodPressure")
          IN IF shouldReplaceLatest(current, timestamp, order)
             THEN SetLatest(withTrend, "bloodPressure",
                    [systolic |-> IF hasSys THEN rowValues.systolic ELSE NullV,
                     diastolic |-> IF hasDia THEN rowValues.diastolic ELSE NullV,
                     unit |-> "mmHg", timestamp |-> timestamp, order |-> order])
             ELSE withTrend

\* addBloodPressureSample appending a trend entry for a row with one side only
addBloodPressureSampleOneSideTrend(metrics, rowValues, timestamp, order, meta) ==
  LET hasSys == Has(rowValues, "systolic")
      hasDia == Has(rowValues, "diastolic")
  IN IF hasSys /\ (rowValues.systolic < BP_SYS_MIN \/ rowValues.systolic > BP_SYS_MAX) THEN metrics
     ELSE IF hasDia /\ (rowValues.diastolic < BP_DIA_MIN \/ rowValues.diastolic > BP_DIA_MAX) THEN metrics
     ELSE IF ~hasSys /\ ~hasDia THEN metrics
     ELSE LET withTrend ==
                IF timestamp # NoTs
                THEN PushTrend(metrics, "bloodPressure",
                               [systolic |-> IF hasSys THEN rowValues.systolic ELSE NullV,
                                diastolic |-> IF hasDia THEN rowValues.diastolic ELSE NullV,
                                timestamp |-> timestamp, sheet |-> meta.sheetName])
                ELSE metrics
              current == LatestOf(metrics, "bloodPressure")
          IN IF shouldReplaceLatest(current, timestamp, order)
             THEN SetLatest(withTrend, "bloodPressure",
                    [systolic |-> IF hasSys THEN rowValues.systolic
                                  ELSE IF current # NullSample THEN current.systolic ELSE NullV,
                     diastolic |-> IF hasDia THEN rowValues.diastolic
                                   ELSE IF current # NullSample THEN current.diastolic ELSE NullV,
                     unit |-> "mmHg", timestamp |-> timestamp, order |-> order])
             ELSE withTrend

\* addBloodPressureSample taking an out-of-range side as a missing side
addBloodPressureSampleDroppingSide(metrics, rowValues, timestamp, order, meta) ==
  LET hasSys == /\ Has(rowValues, "systolic")
                /\ rowValues.systolic >= BP_SYS_MIN /\ rowValues.systolic <= BP_SYS_MAX
      hasDia == /\ Has(rowValues, "diastolic")
                /\ rowValues.diastolic >= BP_DIA_MIN /\ rowValues.diastolic <= BP_DIA_MAX
  IN IF ~hasSys /\ ~hasDia THEN metrics
     ELSE LET withTrend ==
                IF timestamp # NoTs /\ hasSys /\ hasDia
                THEN PushTrend(metrics, "bloodPressure",
                               [systolic |-> rowValues.systolic, diastolic |-> rowValues.diastolic,
                                timestamp |-> timestamp, sheet |-> meta.sheetName])
                ELSE metrics
              current == LatestOf(metrics, "bloodPressure")
          IN IF shouldReplaceLatest(current, timestamp, order)
             THEN SetLatest(withTrend, "bloodPressure",
                    [systolic |-> IF hasSys THEN rowValues.systolic
                                  ELSE IF current # NullSample THEN current.systolic ELSE NullV,
                     diastolic |-> IF hasDia THEN rowValues.diastolic
                                   ELSE IF current # NullSample THEN current.diastolic ELSE NullV,
                     unit |-> "mmHg", timestamp |-> timestamp, order |-> order])
             ELSE withTrend

\* addBloodPressureSample(metrics, rowValues, timestamp, order, meta)
addBloodPressureSample(metrics, rowValues, timestamp, order, meta) ==
  LET hasSys == Has(rowValues, "systolic")
      hasDia == Has(rowValues, "diastolic")
  IN IF hasSys /\ (rowValues.systolic < BP_SYS_MIN \/ rowValues.systolic > BP_SYS_MAX) THEN metrics
     ELSE IF hasDia /\ (rowValues.diastolic < BP_DIA_MIN \/ rowValues.diastolic > BP_DIA_MAX) THEN metrics
     ELSE IF ~hasSys /\ ~hasDia THEN metrics
     ELSE LET withTrend ==
                IF timestamp # NoTs /\ hasSys /\ hasDia
                THEN PushTrend(metrics, "bloodPressure",
                               [systolic |-> rowValues.systolic, diastolic |-> rowValues.diastolic,
                                timestamp |-> timestamp, sheet |-> meta.sheetName])
                ELSE metrics
              current == LatestOf(metrics, "bloodPressure")
          IN IF shouldReplaceLatest(current, timestamp, order)
             THEN SetLatest(withTrend, "bloodPressure",
                    [systolic |-> IF hasSys THEN rowValues.systolic
                                  ELSE IF current # NullSample THEN current.systolic ELSE NullV,
                     diastolic |-> IF hasDia THEN rowValues.diastolic
                                   ELSE IF current # NullSample THEN current.diastolic ELSE NullV,
                     unit |-> "mmHg", timestamp |-> timestamp, order |-> order])
             ELSE withTrend

\* Truthiness of rowValues.systolic / rowValues.diastolic
Truthy(rowValues, k) == Has(rowValues, k) /\ rowValues[k] # 0

RECURSIVE AddNumericSamples(_, _, _, _, _, _)
AddNumericSamples(metrics, rowValues, keys, timestamp, order, meta) ==
  IF keys = {} THEN metrics
  ELSE LET key == CHOOSE k \in keys : TRUE
       IN AddNumericSamples(addNumericSample(metrics, key, rowValues[key], timestamp, order, meta),
                            rowValues, keys \ {key}, timestamp, order, meta)

\* applyRowValues advancing the sequence counter only for a row that yields a value
applyRowValuesCountingValues(agg, rowValues, timestamp, meta) ==
  LET isoTimestamp == IF timestamp.ok THEN timestamp.t ELSE NoTs
      order == IF DOMAIN rowValues = {} THEN agg.sampleSequence ELSE agg.sampleSequence + 1
      afterBp ==
        IF Truthy(rowValues, "systolic") \/ Truthy(rowValues, "diastolic")
        THEN addBloodPressureSample(agg.metrics, rowValues, isoTimestamp, order, meta)
        ELSE agg.metrics
      afterAll ==
        AddNumericSamples(afterBp, rowValues, DOMAIN rowValues \ {"systolic", "diastolic"},
                          isoTimestamp, order, meta)
  IN [agg EXCEPT !.sampleSequence = order, !.metrics = afterAll]

\* applyRowValues(aggregation, rowValues, timestamp, meta)
applyRowValues(agg, rowValues, timestamp, meta) ==
  LET isoTimestamp == IF timestamp.ok THEN timestamp.t ELSE NoTs
      order == agg.sampleSequence + 1
      afterBp ==
        IF Truthy(rowValues, "systolic") \/ Truthy(rowValues, "diastolic")
        THEN addBloodPressureSample(agg.metrics, rowValues, isoTimestamp, order, meta)
        ELSE agg.metrics
      afterAll ==
        AddNumericSamples(afterBp, rowValues, DOMAIN rowValues \ {"systolic", "diastolic"},
                          isoTimestamp, order, meta)
  IN [agg EXCEPT !.sampleSequence = order, !.metrics = afterAll]

\* The value updateRawCollections stores for a cell; stored = FALSE when it stores none
RawValueOf(cellValue) ==
  LET numeric == parseNumber(cellValue)
  IN IF IsBlank(cellValue) THEN [stored |-> FALSE]
     ELSE IF numeric.ok THEN [stored |-> TRUE, value |-> Num(numeric.n)]
     ELSE IF cellValue.kind = "str" /\ Trim(cellValue.s) # <<>>
       THEN [stored |-> TRUE, value |-> Str(Trim(cellValue.s))]
     ELSE [stored |-> FALSE]

\* The elements of a set of indices below n in increasing order
Ascending(indices, n) == SelectSeq([i \in 1 .. n |-> i], LAMBDA i : i \in indices)

\* updateRawCollections storing a value only under a label that has none yet
updateRawCollectionsKeepingFirst(agg, descriptors, row) ==
  LET matched == {i \in DOMAIN descriptors : descriptors[i].matcher # "none"}
      known == {agg.rawLabelSet[i] : i \in DOMAIN agg.rawLabelSet}
      firsts == {i \in matched :
                   /\ descriptors[i].header \notin known
                   /\ \A j \in matched : j < i => descriptors[j].header # descriptors[i].header}
      order == Ascending(firsts, Len(descriptors))
      added == [n \in DOMAIN order |-> descriptors[order[n]].header]
      storing == {i \in matched : RawValueOf(CellAt(row, descriptors[i].index)).stored}
      labels == {descriptors[i].header : i \in storing} \ DOMAIN agg.dynamicData
      first(label) == LET w == {i \in storing : descriptors[i].header = label}
                      IN CHOOSE i \in w : \A o \in w : i <= o
  IN [agg EXCEPT
        !.rawLabelSet = @ \o added,
        !.dynamicData = [x \in DOMAIN @ \cup labels |->
                           IF x \in labels
                           THEN RawValueOf(CellAt(row, descriptors[first(x)].index)).value
                           ELSE @[x]]]

\* updateRawCollections(aggregation, descriptors, row): one pass over the
\* descriptors in column order; every matched column adds its label to the
\* label set, and the last matched column of a label with a storable cell
\* decides dynamicData[label]
updateRawCollections(agg, descriptors, row) ==
  LET matched == {i \in DOMAIN descriptors : descriptors[i].matcher # "none"}
      known == {agg.rawLabelSet[i] : i \in DOMAIN agg.rawLabelSet}
      firsts == {i \in matched :
                   /\ descriptors[i].header \notin known
                   /\ \A j \in matched : j < i => descriptors[j].header # descriptors[i].header}
      order == Ascending(firsts, Len(descriptors))
      added == [n \in DOMAIN order |-> descriptors[order[n]].header]
      storing == {i \in matched : RawValueOf(CellAt(row, descriptors[i].index)).stored}
      labels == {descriptors[i].header : i \in storing}
      last(label) == LET w == {i \in storing : descriptors[i].header = label}
                     IN CHOOSE i \in w : \A o \in w : o <= i
  IN [agg EXCEPT
        !.rawLabelSet = @ \o added,
        !.dynamicData = [x \in DOMAIN @ \cup labels |->
                           IF x \in labels
                           THEN RawValueOf(CellAt(row, descriptors[last(x)].index)).value
                           ELSE @[x]]]

\* -------------------------------------------------------------------------
\* TrendFinalizer
\* -------------------------------------------------------------------------

\* The comparator of finalizeTrends
TrendCompare(a, b) ==
  IF a.timestamp = NoTs \/ b.timestamp = NoTs THEN 0 ELSE a.timestamp - b.timestamp

\* InsertSorted moving x in front of the elements that compare equal to it
RECURSIVE InsertSortedUnstable(_, _)
InsertSortedUnstable(sorted, x) ==
  IF sorted = <<>> THEN <<x>>
  ELSE IF TrendCompare(sorted[Len(sorted)], x) >= 0
    THEN Append(InsertSortedUnstable(SubSeq(sorted, 1, Len(sorted) - 1), x), sorted[Len(sorted)])
    ELSE Append(sorted, x)

\* Insert x behind the last element that does not compare greater than x
RECURSIVE InsertSorted(_, _)
InsertSorted(sorted, x) ==
  IF sorted = <<>> THEN <<x>>
  ELSE IF TrendCompare(sorted[Len(sorted)], x) > 0
    THEN Append(InsertSorted(SubSeq(sorted, 1, Len(sorted) - 1), x), sorted[Len(sorted)])
    ELSE Append(sorted, x)

\* Array.prototype.sort with the comparator: a stable sort
RECURSIVE SortEntries(_)
SortEntries(entries) ==
  IF entries = <<>> THEN <<>>
  ELSE InsertSorted(SortEntries(SubSeq(entries, 1, Len(entries) - 1)), entries[Len(entries)])

\* finalizeTrends leaving every trend in the order of its appends
finalizeTrendsUnsorted(metrics) == metrics

finalizeTrends(metrics) ==
  [metrics EXCEPT !.trends = [k \in DOMAIN metrics.trends |-> SortEntries(metrics.trends[k])]]

\* -------------------------------------------------------------------------
\* ResultAssembler
\* -------------------------------------------------------------------------
buildHeartData(metrics) ==
  LET hr == LatestOf(metrics, "heartRate")
      bp == LatestOf(metrics, "bloodPressure")
      ldl == LatestOf(metrics, "ldl")
      formatTimeline(entries, unit) ==
        [i \in DOMAIN entries |-> [time |-> [locale |-> "sv-SE", instant |-> entries[i].timestamp], value |-> entries[i].value, unit |-> unit]]
  IN [heartRate |-> IF hr = NullSample THEN NullV ELSE hr.value,
      systolicBP |-> IF bp = NullSample THEN NullV ELSE bp.systolic,
      diastolicBP |-> IF bp = NullSample THEN NullV ELSE bp.diastolic,
      cholesterolLDL |-> IF ldl = NullSample THEN NullV ELSE ldl.value,
      heartRateOverTime |-> formatTimeline(TrendOf(metrics, "heartRate"), "bpm"),
      bloodPressureData |-> TrendOf(metrics, "bloodPressure"),
      ecgData |-> <<>>,
      hrvData |-> <<>>]

\* buildHeartData running before finalizeTrends: the heart-rate timeline is
\* mapped from the trend as appended
buildHeartDataBeforeSort(metrics, appendedTrends) ==
  [buildHeartData(metrics) EXCEPT
     !.heartRateOverTime =
        [i \in DOMAIN appendedTrends.heartRate |->
           [time |-> [locale |-> "sv-SE", instant |-> appendedTrends.heartRate[i].timestamp],
            value |-> appendedTrends.heartRate[i].value, unit |-> "bpm"]]]

\* parseWorkbook with buildHeartData called before finalizeTrends
parseWorkbookResultHeartFirst(agg) ==
  LET metrics == finalizeTrends(agg.metrics)
  IN [filename |-> agg.filename,
      uploadedAt |-> agg.uploadedAt,
      parsedAt |-> agg.parsedAt,
      sheetNames |-> agg.sheetNames,
      sheetSummaries |-> agg.sheetSummaries,
      metrics |-> metrics,
      rawData |-> SubSeq(agg.rawLabelSet, 1, IF Len(agg.rawLabelSet) < MAX_RAW_ITEMS THEN Len(agg.rawLabelSet) ELSE MAX_RAW_ITEMS),
      dynamicData |-> agg.dynamicData,
      heartData |-> buildHeartDataBeforeSort(metrics, agg.metrics.trends)]

\* Array.from(rawLabelSet) without the slice
SliceRawUncapped(labels) == labels

\* Array.from(rawLabelSet).slice(0, MAX_RAW_ITEMS)
SliceRaw(labels) ==
  SubSeq(labels, 1, IF Len(labels) < MAX_RAW_ITEMS THEN Len(labels) ELSE MAX_RAW_ITEMS)

\* createAggregation(excelMeta, workbook); now is the reading of the clock.
\* A missing name or uploadedAt is the empty string (falsy under ||).
createAggregation(excelMeta, sheetNames, now) ==
  [filename |-> IF excelMeta.name = "" THEN "excel.xlsx" ELSE excelMeta.name,
   uploadedAt |-> IF excelMeta.uploadedAt = "" THEN now ELSE excelMeta.uploadedAt,
   parsedAt |-> now,
   sheetNames |-> sheetNames,
   sheetSummaries |-> <<>>,
   metrics |-> createEmptyMetrics,
   rawLabelSet |-> <<>>,
   dynamicData |-> <<>>,
   sampleSequence |-> 0]

\* The value returned by parseWorkbook once every sheet is processed
parseWorkbookResult(agg) ==
  LET metrics == finalizeTrends(agg.metrics)
  IN [filename |-> agg.filename,
      uploadedAt |-> agg.uploadedAt,
      parsedAt |-> agg.parsedAt,
      sheetNames |-> agg.sheetNames,
      sheetSummaries |-> agg.sheetSummaries,
      metrics |-> metrics,
      rawData |-> SliceRaw(agg.rawLabelSet),
      dynamicData |-> agg.dynamicData,
      heartData |-> buildHeartData(metrics)]

\* createFallbackExcelContent without the error marker
createFallbackWithoutError(excelFile) ==
  [filename |-> excelFile.name,
   uploadedAt |-> excelFile.uploadedAt,
   sheetNames |-> <<>>,
   metrics |-> createEmptyMetrics,
   rawData |-> <<>>,
   dynamicData |-> <<>>,
   heartData |-> [heartRate |-> NullV, systolicBP |-> NullV, diastolicBP |-> NullV,
                  cholesterolLDL |-> NullV, heartRateOverTime |-> <<>>,
                  bloodPressureData |-> <<>>, ecgData |-> <<>>, hrvData |-> <<>>],
   parsedAt |-> "now"]

createFallbackExcelContent(excelFile) ==
  [filename |-> excelFile.name,
   uploadedAt |-> excelFile.uploadedAt,
   sheetNames |-> <<>>,
   metrics |-> createEmptyMetrics,
   rawData |-> <<>>,
   dynamicData |-> <<>>,
   heartData |-> [heartRate |-> NullV, systolicBP |-> NullV, diastolicBP |-> NullV,
                  cholesterolLDL |-> NullV, heartRateOverTime |-> <<>>,
                  bloodPressureData |-> <<>>, ecgData |-> <<>>, hrvData |-> <<>>],
   error |-> "Excel file could not be parsed automatically",
   parsedAt |-> "now"]

\* -------------------------------------------------------------------------
\* HeaderDetector
\* -------------------------------------------------------------------------

\* The score findHeaderRow adds for one cell
CellScore(cell) ==
  IF cell.kind = "str" /\ Trim(cell.s) # <<>> THEN 2
  ELSE IF cell.kind # "null" /\ ~(cell.kind = "str" /\ cell.s = <<>>) THEN 1
  ELSE 0

RECURSIVE RowScore(_)
RowScore(row) ==
  IF row = <<>> THEN 0
  ELSE RowScore(SubSeq(row, 1, Len(row) - 1)) + CellScore(row[Len(row)])

DigitChar(d) ==
  CASE d = 0 -> "0" [] d = 1 -> "1" [] d = 2 -> "2" [] d = 3 -> "3" [] d = 4 -> "4"
    [] d = 5 -> "5" [] d = 6 -> "6" [] d = 7 -> "7" [] d = 8 -> "8" [] d = 9 -> "9"

RECURSIVE DecimalChars(_)
DecimalChars(n) ==
  IF n < 10 THEN <<DigitChar(n)>> ELSE Append(DecimalChars(n \div 10), DigitChar(n % 10))

\* `Kolumn ${idx + 1}` for the 0-based column idx
Placeholder(idx) == <<"K", "o", "l", "u", "m", "n", " ">> \o DecimalChars(idx + 1)

HeaderLabel(cell, idx) ==
  LET label == IF cell.kind = "str" THEN Trim(cell.s) ELSE <<>>
  IN IF label # <<>> THEN label ELSE Placeholder(idx)

Min(a, b) == IF a < b THEN a ELSE b

\* The loop of findHeaderRow over rows[i], i = from .. Math.min(rows.length, 20) - 1;
\* rows[i] of the source is rows[i + 1] here
RECURSIVE ScanRows(_, _, _, _)
ScanRows(rows, i, bestIndex, bestScore) ==
  IF i >= Min(Len(rows), HEADER_SCAN_ROWS) THEN [bestIndex |-> bestIndex, bestScore |-> bestScore]
  ELSE LET score == RowScore(rows[i + 1])
       IN IF score > bestScore
          THEN ScanRows(rows, i + 1, i, score)
          ELSE ScanRows(rows, i + 1, bestIndex, bestScore)

NoHeader == [found |-> FALSE]

RECURSIVE ScanRowsTieLast(_, _, _, _)
ScanRowsTieLast(rows, i, bestIndex, bestScore) ==
  IF i >= Min(Len(rows), HEADER_SCAN_ROWS) THEN [bestIndex |-> bestIndex, bestScore |-> bestScore]
  ELSE LET score == RowScore(rows[i + 1])
       IN IF score >= bestScore
          THEN ScanRowsTieLast(rows, i + 1, i, score)
          ELSE ScanRowsTieLast(rows, i + 1, bestIndex, bestScore)

\* findHeaderRow with a best-row update on score >= bestScore
findHeaderRowTieLast(rows) ==
  LET best == ScanRowsTieLast(rows, 0, 0 - 1, 0 - 1)
  IN IF best.bestIndex = 0 - 1 \/ best.bestScore = 0 THEN NoHeader
     ELSE [found |-> TRUE,
           headerIndex |-> best.bestIndex,
           headers |-> [c \in DOMAIN rows[best.bestIndex + 1] |->
                          HeaderLabel(rows[best.bestIndex + 1][c], c - 1)]]

\* findHeaderRow(rows); headerIndex is 0-based as in the source
findHeaderRow(rows) ==
  LET best == ScanRows(rows, 0, 0 - 1, 0 - 1)
  IN IF best.bestIndex = 0 - 1 \/ best.bestScore = 0 THEN NoHeader
     ELSE [found |-> TRUE,
           headerIndex |-> best.bestIndex,
           headers |-> [c \in DOMAIN rows[best.bestIndex + 1] |->
                          HeaderLabel(rows[best.bestIndex + 1][c], c - 1)]]

\* A column descriptor; matcher is the key of the matched parameter or "none"
Desc(index, header, role, matcher) ==
  [index |-> index, header |-> header, role |-> role, matcher |-> matcher]

\* -------------------------------------------------------------------------
\* ColumnClassifier
\* -------------------------------------------------------------------------
UpperChars == <<"A", "B", "C", "D", "E", "F", "G", "H", "I", "J", "K", "L", "M", "N", "O", "P", "Q", "R", "S", "T", "U", "V", "W", "X", "Y", "Z", "Ä", "Ö", "Å">>

LowerChars == <<"a", "b", "c", "d", "e", "f", "g", "h", "i", "j", "k", "l", "m", "n", "o", "p", "q", "r", "s", "t", "u", "v", "w", "x", "y", "z", "ä", "ö", "å">>

\* toLowerCase on one character
ToLower(c) ==
  IF \E i \in DOMAIN UpperChars : UpperChars[i] = c
  THEN LowerChars[CHOOSE i \in DOMAIN UpperChars : UpperChars[i] = c]
  ELSE c

\* normalize("NFD") followed by the removal of the combining marks, on one character
StripMark(c) ==
  CASE c = "ä" -> "a" [] c = "å" -> "a" [] c = "ö" -> "o" [] OTHER -> c

\* normalizeText: lower case, diacritics removed, trimmed
normalizeText(value) ==
  IF value = <<>> THEN <<>>
  ELSE Trim([i \in DOMAIN value |-> StripMark(ToLower(value[i]))])

\* String.prototype.includes
Includes(text, part) ==
  \E i \in 0 .. (Len(text) - Len(part)) : SubSeq(text, i + 1, i + Len(part)) = part

DATE_KEYWORDS == <<<<"d", "a", "t", "e">>, <<"d", "a", "t", "u", "m">>, <<"d", "a", "g">>, <<"d", "a", "t", "o">>>>

TIME_KEYWORDS == <<<<"t", "i", "m", "e">>, <<"t", "i", "d">>, <<"k", "l", "o", "c", "k">>, <<"k", "l">>, <<"h", "o", "u", "r">>>>

DATETIME_KEYWORDS == <<<<"t", "i", "m", "e", "s", "t", "a", "m", "p">>, <<"t", "i", "d", "p", "u", "n", "k", "t">>, <<"d", "a", "t", "e", "/", "t", "i", "m", "e">>, <<"d", "a", "t", "e", "t", "i", "m", "e">>>>

\* keywords.some(keyword => normalizedHeader.includes(keyword))
SomeIncluded(keywords, normalizedHeader) ==
  \E i \in DOMAIN keywords : Includes(normalizedHeader, keywords[i])

\* detectDeclaredRole with the date keywords tried before the datetime keywords
detectDeclaredRoleDateFirst(normalizedHeader) ==
  IF normalizedHeader = <<>> THEN "none"
  ELSE IF SomeIncluded(DATE_KEYWORDS, normalizedHeader) THEN "date"
  ELSE IF SomeIncluded(DATETIME_KEYWORDS, normalizedHeader) THEN "datetime"
  ELSE IF SomeIncluded(TIME_KEYWORDS, normalizedHeader) THEN "time"
  ELSE "value"

\* detectDeclaredRole; "none" is the null result
detectDeclaredRole(normalizedHeader) ==
  IF normalizedHeader = <<>> THEN "none"
  ELSE IF SomeIncluded(DATETIME_KEYWORDS, normalizedHeader) THEN "datetime"
  ELSE IF SomeIncluded(DATE_KEYWORDS, normalizedHeader) THEN "date"
  ELSE IF SomeIncluded(TIME_KEYWORDS, normalizedHeader) THEN "time"
  ELSE "value"

\* The matchers of the entries of PARAMETER_MAP, in registry order
MATCHERS ==
  << <<<<"w", "e", "i", "g", "h", "t">>, <<"v", "i", "k", "t">>, <<"k", "g">>>>,
     <<<<"h", "e", "a", "r", "t", " ", "r", "a", "t", "e">>, <<"p", "u", "l", "s", "e">>, <<"h", "j", "ä", "r", "t", "f", "r", "e", "k", "v", "e", "n", "s">>, <<"h", "r">>, <<"s", "l", "a", "g", "/", "m", "i", "n">>>>,
     <<<<"s", "p", "o", "2">>, <<"s", "o", "2">>, <<"o", "x", "y", "g", "e", "n">>, <<"s", "y", "r", "e", "s">>, <<"o", "2">>>>,
     <<<<"l", "d", "l", "-", "k", "o", "l", "e", "s", "t", "e", "r", "o", "l">>, <<"l", "d", "l">>>>,
     <<<<"h", "d", "l", "-", "k", "o", "l", "e", "s", "t", "e", "r", "o", "l">>, <<"h", "d", "l">>>>,
     <<<<"t", "o", "t", "a", "l", " ", "c", "h", "o", "l", "e", "s", "t", "e", "r", "o", "l">>, <<"c", "h", "o", "l", "e", "s", "t", "e", "r", "o", "l">>, <<"k", "o", "l", "e", "s", "t", "e", "r", "o", "l">>>>,
     <<<<"t", "r", "i", "g", "l", "y", "c", "e", "r", "i", "d">>>>,
     <<<<"g", "l", "u", "c", "o", "s", "e">>, <<"g", "l", "u", "k", "o", "s">>, <<"h", "b", "a", "1", "c">>>>,
     <<<<"e", "g", "f", "r">>>>,
     <<<<"s", "t", "e", "p", "s">>, <<"s", "t", "e", "g">>>>,
     <<<<"s", "l", "e", "e", "p">>, <<"s", "ö", "m", "n">>>>,
     <<<<"s", "y", "s", "t", "o", "l", "i", "c">>, <<"s", "y", "s", "t", "o", "l", "i", "s", "k", "t">>, <<"s", "y", "s">>, <<"u", "p", "p", "e", "r", " ", "b", "p">>, <<"ö", "v", "r", "e">>>>,
     <<<<"d", "i", "a", "s", "t", "o", "l", "i", "c">>, <<"d", "i", "a", "s", "t", "o", "l", "i", "s", "k", "t">>, <<"d", "i", "a">>, <<"l", "o", "w", "e", "r", " ", "b", "p">>, <<"n", "e", "d", "r", "e">>>>,
     <<<<"b", "l", "o", "o", "d", " ", "p", "r", "e", "s", "s", "u", "r", "e">>, <<"b", "l", "o", "d", "t", "r", "y", "c", "k">>, <<"b", "p">>, <<"r", "r">>>>,
     <<<<"a", "f">>, <<"a", "t", "r", "i", "a", "l", " ", "f", "i", "b", "r", "i", "l", "l", "a", "t", "i", "o", "n">>, <<"f", "i", "b", "r", "i", "l", "l", "a", "t", "i", "o", "n">>, <<"r", "y", "t", "m">>>> >>

\* matchParameter keeping the first matcher contained in the header, whatever
\* its length
matchParameterFirstHit(normalizedHeader) ==
  IF normalizedHeader = <<>> THEN "none"
  ELSE LET hits == {ij \in {<<i, j>> : i \in DOMAIN MATCHERS, j \in 1 .. 5} :
                      /\ ij[2] \in DOMAIN MATCHERS[ij[1]]
                      /\ Includes(normalizedHeader, normalizeText(MATCHERS[ij[1]][ij[2]]))}
           before(a, b) == a[1] < b[1] \/ (a[1] = b[1] /\ a[2] <= b[2])
       IN IF hits = {} THEN "none"
          ELSE LET best == CHOOSE a \in hits : \A b \in hits : before(a, b)
               IN PARAMETER_MAP[best[1]].key

\* matchParameter: the first matcher of greatest normalized length among the
\* matchers contained in the header; "none" is the null result
matchParameter(normalizedHeader) ==
  IF normalizedHeader = <<>> THEN "none"
  ELSE LET hits == {ij \in {<<i, j>> : i \in DOMAIN MATCHERS, j \in 1 .. 5} :
                      /\ ij[2] \in DOMAIN MATCHERS[ij[1]]
                      /\ Includes(normalizedHeader, normalizeText(MATCHERS[ij[1]][ij[2]]))}
           score(ij) == Len(normalizeText(MATCHERS[ij[1]][ij[2]]))
           before(a, b) == a[1] < b[1] \/ (a[1] = b[1] /\ a[2] <= b[2])
       IN IF hits = {} THEN "none"
          ELSE LET best == CHOOSE a \in hits :
                             \A b \in hits : score(a) > score(b) \/ (score(a) = score(b) /\ before(a, b))
               IN PARAMETER_MAP[best[1]].key

\* String(sample).toLowerCase() matches /(\d{2,3})\s*[\/\-]\s*(\d{2,3})/
RECURSIVE SkipSpaces(_, _)
SkipSpaces(s, i) == IF i <= Len(s) /\ IsSpace(s[i]) THEN SkipSpaces(s, i + 1) ELSE i

LooksLikeBloodPressure(cell) ==
  /\ cell.kind = "str"
  /\ \E i \in DOMAIN cell.s :
       /\ i + 1 <= Len(cell.s)
       /\ IsDigit(cell.s[i]) /\ IsDigit(cell.s[i + 1])
       /\ LET sep == SkipSpaces(cell.s, i + 2)
              next == SkipSpaces(cell.s, sep + 1)
          IN /\ sep <= Len(cell.s)
             /\ cell.s[sep] \in {"/", "-"}
             /\ next + 1 <= Len(cell.s)
             /\ IsDigit(cell.s[next]) /\ IsDigit(cell.s[next + 1])

\* matchParameterBySamples
matchParameterBySamples(samples) ==
  IF \E i \in DOMAIN samples : LooksLikeBloodPressure(samples[i])
  THEN "bloodPressureCombined"
  ELSE "none"

\* inferRoleFromSamples
inferRoleFromSamples(samples) ==
  IF \E i \in DOMAIN samples : parseDateValue(samples[i]).ok THEN "date"
  ELSE IF \E i \in DOMAIN samples : parseTimeValue(samples[i]).ok THEN "time"
  ELSE "value"

\* The sampling of describeColumns with a loop that runs on under the header
\* until it has found nine non-empty cells
SampleValuesSkippingBlanks(rows, headerIndex, c) ==
  LET cells == [i \in 1 .. (IF Len(rows) > headerIndex + 1 THEN Len(rows) - (headerIndex + 1) ELSE 0) |->
                  CellAt(rows[headerIndex + i + 1], c)]
      filled == SelectSeq(cells, LAMBDA cell : ~IsBlank(cell))
  IN SubSeq(filled, 1, Min(Len(filled), 9))

\* The non-empty cells of column c in the rows under the header that
\* describeColumns looks at; rows[i] of the source is rows[i + 1] here
SampleValues(rows, headerIndex, c) ==
  LET last == Min(Len(rows), headerIndex + 10) - 1
      cells == [i \in 1 .. (IF last > headerIndex THEN last - headerIndex ELSE 0) |->
                  CellAt(rows[headerIndex + i + 1], c)]
  IN SelectSeq(cells, LAMBDA cell : ~IsBlank(cell))

\* describeColumns(headers, rows, headerIndex)
describeColumns(headers, rows, headerIndex) ==
  [c \in DOMAIN headers |->
     LET normalized == normalizeText(headers[c])
         declared == detectDeclaredRole(normalized)
         byHeader == matchParameter(normalized)
         sampleValues == SampleValues(rows, headerIndex, c)
         role == IF declared = "none" THEN inferRoleFromSamples(sampleValues) ELSE declared
         matcher == IF declared \in {"none", "value"} /\ byHeader = "none"
                    THEN matchParameterBySamples(sampleValues)
                    ELSE byHeader
     IN Desc(c, headers[c], role, matcher)]

\* -------------------------------------------------------------------------
\* Inputs: column descriptors of a sheet (the result of describeColumns) and
\* the data rows under them
\* -------------------------------------------------------------------------
LayoutHR ==
  << Desc(1, "Tidpunkt", "datetime", "none"),
     Desc(2, "Pulse", "value", "heartRate"),
     Desc(3, "AF", "value", "afBurden") >>

LayoutBP ==
  << Desc(1, "Blodtryck", "value", "bloodPressureCombined") >>

\* A time-of-day column and no date column
LayoutTime ==
  << Desc(1, "Tid", "time", "none"),
     Desc(2, "Pulse", "value", "heartRate") >>

LayoutSysDia ==
  << Desc(1, "Datum", "date", "none"),
     Desc(2, "Systoliskt", "value", "bloodPressureSys"),
     Desc(3, "Diastoliskt", "value", "bloodPressureDia") >>

\* A date column and an LDL column
LayoutLdl ==
  << Desc(1, "Datum", "date", "none"),
     Desc(2, "LDL", "value", "ldl") >>

\* n columns without header text whose cells look like "NN/NN"
LayoutWide(n) ==
  [i \in 1 .. n |-> Desc(i, "Kolumn " \o ToString(i), "value", "bloodPressureCombined")]

WideWidths == {MAX_RAW_ITEMS + 1}

Layouts == {LayoutHR, LayoutBP, LayoutSysDia, LayoutLdl} \cup {LayoutWide(n) : n \in WideWidths}

Text120over80 == <<"1", "2", "0", "/", "8", "0">>
Text999over999 == <<"9", "9", "9", "/", "9", "9", "9">>

\* The cells a data row may hold under a column
ColumnCells(layout, d) ==
  IF Len(layout) > 3 THEN {Str(Text120over80)}
  ELSE IF d.role \in {"datetime", "date"} THEN {NullCell} \cup {Num(n) : n \in 1 .. MaxSerial}
  ELSE IF d.role = "time" THEN {NullCell, Num(0)}
  ELSE IF d.matcher = "heartRate" THEN {NullCell, Num(72), Num(75), Num(300)}
  ELSE IF d.matcher = "afBurden" THEN {NullCell, Num(5)}
  ELSE IF d.matcher = "ldl" THEN {NullCell, Num(3)}
  ELSE IF d.matcher = "bloodPressureCombined"
    THEN {NullCell, Str(Text120over80), Str(<<" ">> \o Text120over80), Str(Text999over999)}
  ELSE IF d.matcher = "bloodPressureSys" THEN {NullCell, Num(120), Num(30)}
  ELSE IF d.matcher = "bloodPressureDia" THEN {NullCell, Num(80), Num(250)}
  ELSE {NullCell}

\* The data rows of processSheet: rows with at least one non-empty cell
DataRows(layout) ==
  {row \in [DOMAIN layout -> UNION {ColumnCells(layout, layout[i]) : i \in DOMAIN layout}] :
     /\ \A i \in DOMAIN layout : row[i] \in ColumnCells(layout, layout[i])
     /\ \E i \in DOMAIN layout : ~IsBlank(row[i])}

\* The data rows of the narrow layouts, enumerated once
RowsHR == {row : row \in DataRows(LayoutHR)}

RowsBP == {row : row \in DataRows(LayoutBP)}

RowsSysDia == {row : row \in DataRows(LayoutSysDia)}

RowsTime == {row : row \in DataRows(LayoutTime)}

RowsUnder(descs) ==
  CASE descs = LayoutHR -> RowsHR
    [] descs = LayoutTime -> RowsTime
    [] descs = LayoutBP -> RowsBP
    [] descs = LayoutSysDia -> RowsSysDia
    [] OTHER -> DataRows(descs)

Metas == {[name |-> "labs.xlsx", uploadedAt |-> "t0"]}

\* The clock read by createAggregation and by combineDateAndTime when a row has no date
Clock == {TicksPerDay * (MaxSerial + 1)}

\* -------------------------------------------------------------------------
\* State
\* -------------------------------------------------------------------------
VARIABLES
  pc,            \* position of the worker's main function
  meta,          \* workerData.meta
  aggregation,   \* the aggregation of parseWorkbook
  sheetCount,    \* workbook.SheetNames.length
  sheetIndex,    \* number of sheets handed to processSheet
  descriptors,   \* descriptors of the sheet being processed
  rowsLeft,      \* data rows of the sheet still to process
  rowMeta,       \* { sheetName, rowIndex } of the next data row
  messages,      \* messages posted to the parent port
  appended,      \* history: trend entries in the order they were appended
  accepted,      \* history: generic samples that passed the range check
  probe,         \* arguments and result of a function applied on its own
  promise,       \* the promise runExcelParser returned for the worker's run
  deployment,    \* which server answers: the express server or the serverless handler
  nextId,        \* number of transfer ids handed out
  uploadCount,   \* number of uploads received; the instant of the last one
  transfers,     \* transferId -> { files }
  patientTransfers, \* patientId -> transferId
  sessionCodes,  \* code -> { transferId }
  excelContentCache, \* <<transferId, filename>> -> { uploadedAt, data }
  disk,          \* <<transferId, filename>> -> content of uploads/<transferId>/<filename>
  parserRuns,    \* runs of runExcelParser not yet settled
  lastResponse,  \* history: the last answer of GET /api/excel-content
  handlers,      \* invocations of the serverless POST handler that are at an await
  blobKeys,      \* keys of the JSON documents in blob storage
  blobMapping,   \* patientId -> transferId as stored under patient_transfer_<patientId>
  everMapped,    \* history: every transferId that was set in patientTransfers
  lastCreated,   \* history: patientId -> the transferId created last for it
  everCancelled, \* history: cancelled transferId -> the number of its files when it was cancelled
  mmdSessionCodes \* global.__mmd_sessionCodes of the session store: code -> session

workerVars == <<pc, meta, aggregation, sheetCount, sheetIndex, descriptors, rowsLeft, rowMeta,
                messages, appended, accepted>>

storeVars == <<deployment, nextId, uploadCount, transfers, patientTransfers, sessionCodes,
               excelContentCache, disk, parserRuns, lastResponse, handlers, blobKeys,
               blobMapping, everMapped, lastCreated, everCancelled, mmdSessionCodes>>

serverVars == <<promise, storeVars>>

vars == <<pc, meta, aggregation, sheetCount, sheetIndex, descriptors, rowsLeft, rowMeta,
          messages, appended, accepted, probe, promise, deployment, nextId, uploadCount,
          transfers, patientTransfers, sessionCodes, excelContentCache, disk, parserRuns,
          lastResponse, handlers, blobKeys, blobMapping, everMapped, lastCreated, everCancelled, mmdSessionCodes>>

EmptyMap == [k \in {} |-> 0]

Pending == [state |-> "pending"]

NoResponse == [served |-> FALSE]

\* The server before any request, with no worker message handled
ServerIdle ==
  /\ promise = Pending
  /\ nextId = 0
  /\ uploadCount = 0
  /\ transfers = EmptyMap
  /\ patientTransfers = EmptyMap
  /\ sessionCodes = EmptyMap
  /\ excelContentCache = EmptyMap
  /\ disk = EmptyMap
  /\ parserRuns = {}
  /\ lastResponse = NoResponse
  /\ handlers = {}
  /\ blobKeys = {}
  /\ blobMapping = EmptyMap
  /\ everMapped = {}
  /\ lastCreated = EmptyMap
  /\ everCancelled = EmptyMap
  /\ mmdSessionCodes = EmptyMap

NoProbe == [done |-> FALSE]

NoAggregation == [isNull |-> TRUE]

SheetName(i) == "Sheet" \o ToString(i)

WorkerInit ==
  /\ pc = "init"
  /\ meta \in Metas
  /\ aggregation = NoAggregation
  /\ sheetCount = 0
  /\ sheetIndex = 0
  /\ descriptors = <<>>
  /\ rowsLeft = 0
  /\ rowMeta = [sheetName |-> "", rowIndex |-> 0]
  /\ messages = <<>>
  /\ appended = [k \in TrendKeys |-> <<>>]
  /\ accepted = <<>>
  /\ deployment = "express"
  /\ ServerIdle

Init == WorkerInit /\ probe = NoProbe

\* readFile and XLSX.read succeed; parseWorkbook creates the aggregation
ReadWorkbook(n, now) ==
  /\ pc = "init"
  /\ aggregation' = createAggregation(meta, [i \in 1 .. n |-> SheetName(i)], now)
  /\ sheetCount' = n
  /\ pc' = "sheets"
  /\ UNCHANGED <<meta, sheetIndex, descriptors, rowsLeft, rowMeta, messages, appended, accepted, probe>>
  /\ UNCHANGED serverVars

\* Variant: the catch clause posts the fallback marked as a failure
ReadFailsReportingError ==
  /\ pc = "init"
  /\ messages' = Append(messages, [success |-> FALSE, data |-> createFallbackExcelContent(meta)])
  /\ pc' = "failed"
  /\ UNCHANGED <<meta, aggregation, sheetCount, sheetIndex, descriptors, rowsLeft, rowMeta,
                 appended, accepted, probe>>
  /\ UNCHANGED serverVars

\* readFile or XLSX.read throws: the catch clause posts the fallback
ReadFails ==
  /\ pc = "init"
  /\ messages' = Append(messages, [success |-> TRUE, data |-> createFallbackExcelContent(meta)])
  /\ pc' = "failed"
  /\ UNCHANGED <<meta, aggregation, sheetCount, sheetIndex, descriptors, rowsLeft, rowMeta,
                 appended, accepted, probe>>
  /\ UNCHANGED serverVars

\* processSheet returns early: no rows, no header row, or no data row
SkipSheet ==
  /\ pc = "sheets"
  /\ sheetIndex < sheetCount
  /\ sheetIndex' = sheetIndex + 1
  /\ UNCHANGED <<pc, meta, aggregation, sheetCount, descriptors, rowsLeft, rowMeta, messages,
                 appended, accepted, probe>>
  /\ UNCHANGED serverVars

\* aggregation.sheetSummaries.push({ sheetName, headerRowIndex, headerRow, rowCount })
PushSummary(agg, sheetName, headerIndex, layout, n) ==
  [agg EXCEPT !.sheetSummaries =
     Append(@, [sheetName |-> sheetName,
                headerRowIndex |-> headerIndex,
                headerRow |-> [i \in DOMAIN layout |-> layout[i].header],
                rowCount |-> n])]

\* processSheet up to the loop over the data rows
BeginSheet(layout, headerIndex, n) ==
  /\ pc = "sheets"
  /\ sheetIndex < sheetCount
  /\ n >= 1
  /\ aggregation.sampleSequence + n <= MaxRows
  /\ sheetIndex' = sheetIndex + 1
  /\ descriptors' = layout
  /\ aggregation' = PushSummary(aggregation, SheetName(sheetIndex + 1), headerIndex, layout, n)
  /\ rowsLeft' = n
  /\ rowMeta' = [sheetName |-> SheetName(sheetIndex + 1), rowIndex |-> headerIndex + 1]
  /\ pc' = "rows"
  /\ UNCHANGED <<meta, sheetCount, messages, appended, accepted, probe>>
  /\ UNCHANGED serverVars

\* The loop of processSheet over the data rows, from first to last
RECURSIVE ProcessDataRows(_, _, _, _, _)
ProcessDataRows(agg, descs, rows, rmeta, now) ==
  IF rows = <<>> THEN agg
  ELSE LET row == Head(rows)
           timestamp == deriveTimestamp(row, descs, now)
           rowValues == extractRowValues(row, descs)
           applied == applyRowValues(agg, rowValues, timestamp, rmeta)
       IN ProcessDataRows(updateRawCollections(applied, descs, row), descs, Tail(rows),
                          [rmeta EXCEPT !.rowIndex = @ + 1], now)

InRange(key, value) ==
  /\ key \in ParamKeys
  /\ PARAMETER_META(key).hasRange => (PARAMETER_META(key).min <= value /\ value <= PARAMETER_META(key).max)

RECURSIVE AcceptedOf(_, _, _, _)
AcceptedOf(rowValues, keys, ts, order) ==
  IF keys = {} THEN <<>>
  ELSE LET key == CHOOSE k \in keys : TRUE
           rest == AcceptedOf(rowValues, keys \ {key}, ts, order)
       IN IF InRange(key, rowValues[key])
          THEN <<[key |-> key, value |-> rowValues[key], timestamp |-> ts, order |-> order]>> \o rest
          ELSE rest

\* One iteration of the loop over the data rows of processSheet
ProcessRow(row, now) ==
  /\ pc = "rows"
  /\ rowsLeft > 0
  /\ LET timestamp == deriveTimestamp(row, descriptors, now)
         rowValues == extractRowValues(row, descriptors)
         applied == applyRowValues(aggregation, rowValues, timestamp, rowMeta)
         next == updateRawCollections(applied, descriptors, row)
     IN /\ aggregation' = next
        /\ appended' = next.metrics.trends
        /\ accepted' = accepted \o
             AcceptedOf(rowValues, DOMAIN rowValues \ {"systolic", "diastolic"},
                        IF timestamp.ok THEN timestamp.t ELSE NoTs, next.sampleSequence)
  /\ rowsLeft' = rowsLeft - 1
  /\ rowMeta' = [rowMeta EXCEPT !.rowIndex = @ + 1]
  /\ pc' = IF rowsLeft = 1 THEN "sheets" ELSE "rows"
  /\ UNCHANGED <<meta, sheetCount, sheetIndex, descriptors, messages, probe>>
  /\ UNCHANGED serverVars

\* The rest of parseWorkbook once every sheet is processed, and the post of its result
Finalize ==
  /\ pc = "sheets"
  /\ sheetIndex = sheetCount
  /\ pc' = "posted"
  /\ LET parsed == parseWorkbookResult(aggregation)
     IN /\ messages' = Append(messages, [success |-> TRUE, data |-> parsed])
        /\ aggregation' = [aggregation EXCEPT !.metrics = parsed.metrics]
  /\ UNCHANGED <<meta, sheetCount, sheetIndex, descriptors, rowsLeft, rowMeta, appended, accepted, probe>>
  /\ UNCHANGED serverVars

\* A step of parseWorkbook throws: the catch clause posts the fallback
ParseThrows ==
  /\ pc \in {"sheets", "rows"}
  /\ pc' = "failed"
  /\ messages' = Append(messages, [success |-> TRUE, data |-> createFallbackExcelContent(meta)])
  /\ aggregation' = NoAggregation
  /\ descriptors' = <<>>
  /\ rowsLeft' = 0
  /\ rowMeta' = [sheetName |-> "", rowIndex |-> 0]
  /\ appended' = [k \in TrendKeys |-> <<>>]
  /\ accepted' = <<>>
  /\ UNCHANGED <<meta, sheetCount, sheetIndex, probe>>
  /\ UNCHANGED serverVars

\* worker.once('message', ...) of runExcelParser: the first message settles the promise
OnMessage ==
  /\ promise = Pending
  /\ messages # <<>>
  /\ promise' = IF messages[1].success
                THEN [state |-> "resolved", value |-> messages[1].data]
                ELSE [state |-> "rejected"]
  /\ UNCHANGED <<workerVars, probe, storeVars>>

Next ==
  \/ ReadFails
  \/ ParseThrows
  \/ OnMessage
  \/ \E n \in 0 .. MaxSheets, now \in Clock : ReadWorkbook(n, now)
  \/ SkipSheet
  \/ pc = "sheets" /\ \E layout \in Layouts, n \in 1 .. MaxRows : BeginSheet(layout, 0, n)
  \/ pc = "rows" /\ \E row \in RowsUnder(descriptors), now \in Clock : ProcessRow(row, now)
  \/ Finalize

Spec == Init /\ [][Next]_vars

\* The worker thread runs on until its main function returns, and the event loop of
\* the server delivers the message it posted
SpecLive == Init /\ [][Next]_vars /\ WF_vars(Next)

\* -------------------------------------------------------------------------
\* shouldReplaceLatest applied on its own
\* -------------------------------------------------------------------------
ProbeInstants == {NoTs} \cup {n * TicksPerDay : n \in 1 .. MaxSerial}

ProbeOrders == 1 .. (MaxRows + 1)

ReplaceProbes ==
  {[current |-> c, timestamp |-> t, order |-> o, done |-> FALSE, result |-> FALSE] :
     c \in {NullSample} \cup
           {[value |-> 72, timestamp |-> ct, unit |-> "bpm", order |-> co] :
              ct \in ProbeInstants, co \in ProbeOrders},
     t \in ProbeInstants, o \in ProbeOrders}

InitReplace == WorkerInit /\ probe \in ReplaceProbes

ApplyShouldReplaceLatest ==
  /\ ~probe.done
  /\ probe' = [probe EXCEPT !.done = TRUE,
                            !.result = shouldReplaceLatest(probe.current, probe.timestamp, probe.order)]
  /\ UNCHANGED workerVars
  /\ UNCHANGED serverVars

NextReplace == ApplyShouldReplaceLatest

SpecReplace == InitReplace /\ [][NextReplace]_vars

\* -------------------------------------------------------------------------
\* parseWorkbook run twice on the same workbook and metadata
\* -------------------------------------------------------------------------

\* parseWorkbook on a workbook of one sheet with the given columns and data
\* rows, the clock reading now
parseWorkbookOnSheet(excelMeta, layout, rows, now) ==
  LET created == createAggregation(excelMeta, <<SheetName(1)>>, now)
      summarised == PushSummary(created, SheetName(1), 0, layout, Len(rows))
      processed == ProcessDataRows(summarised, layout, rows,
                                   [sheetName |-> SheetName(1), rowIndex |-> 1], now)
  IN parseWorkbookResult(processed)

TwinMetas == Metas \cup {[name |-> "labs.xlsx", uploadedAt |-> ""]}

TwinLayouts == {LayoutTime, LayoutSysDia}

\* The two runs happen on different days
TwinClock == {TicksPerDay * (MaxSerial + 1), TicksPerDay * (MaxSerial + 2)}

RowSeqs(layout) == UNION {[1 .. n -> RowsUnder(layout)] : n \in 1 .. MaxRows}

TwinProbes ==
  UNION {{[layout |-> layout, rows |-> rows, first |-> t1, second |-> t2, done |-> FALSE] :
            rows \in RowSeqs(layout), t1 \in TwinClock, t2 \in TwinClock} :
         layout \in TwinLayouts}

InitTwin ==
  /\ pc = "init"
  /\ meta \in TwinMetas
  /\ aggregation = NoAggregation
  /\ sheetCount = 0
  /\ sheetIndex = 0
  /\ descriptors = <<>>
  /\ rowsLeft = 0
  /\ rowMeta = [sheetName |-> "", rowIndex |-> 0]
  /\ messages = <<>>
  /\ appended = [k \in TrendKeys |-> <<>>]
  /\ accepted = <<>>
  /\ deployment = "express"
  /\ ServerIdle
  /\ probe \in TwinProbes

\* Both runs; each posts its result
RunTwice ==
  /\ ~probe.done
  /\ probe' = [probe EXCEPT !.done = TRUE]
  /\ messages' =
       [run \in 1 .. 2 |->
          [success |-> TRUE,
           data |-> parseWorkbookOnSheet(meta, probe.layout, probe.rows,
                                         IF run = 1 THEN probe.first ELSE probe.second)]]
  /\ UNCHANGED <<pc, meta, aggregation, sheetCount, sheetIndex, descriptors, rowsLeft, rowMeta,
                 appended, accepted>>
  /\ UNCHANGED serverVars

NextTwin == RunTwice

SpecTwin == InitTwin /\ [][NextTwin]_vars

\* -------------------------------------------------------------------------
\* findHeaderRow applied on its own
\* -------------------------------------------------------------------------
RowBlank == <<NullCell, Str(<<>>), NullCell>>
RowOneNumber == <<Num(7), NullCell, NullCell>>
RowSpaces == <<Str(<<" ">>), NullCell, Str(<<>>)>>
RowOneText == <<NullCell, Str(<<"P", "u", "l", "s">>), NullCell>>
RowTwoNumbers == <<Num(1), Num(2), NullCell>>
RowTextNumber == <<Str(<<" ", "H", "R">>), Num(1), NullCell>>
RowThreeTexts == <<Str(<<"A">>), Str(<<"B">>), Str(<<"C">>)>>

HeaderRowTypes ==
  {RowBlank, RowOneNumber, RowSpaces, RowOneText, RowTwoNumbers, RowTextNumber, RowThreeTexts}

HeaderFillers == {RowBlank, RowOneText}

HeaderLens ==
  {0, 1, 2} \cup ((HEADER_SCAN_ROWS - 1) .. (HEADER_SCAN_ROWS + MaxRowsBeyondScan))

HeaderPositions ==
  {1, 2} \cup ((HEADER_SCAN_ROWS - 1) .. (HEADER_SCAN_ROWS + MaxRowsBeyondScan))

\* A sheet of n rows: fillers everywhere but at rows i and j
SheetOf(n, filler, i, a, j, b) ==
  [k \in 1 .. n |-> IF k = i THEN a ELSE IF k = j THEN b ELSE filler]

HeaderProbes ==
  {[rows |-> SheetOf(n, filler, i, a, j, b), done |-> FALSE, result |-> NoHeader] :
     n \in HeaderLens, filler \in HeaderFillers,
     i \in HeaderPositions, a \in HeaderRowTypes,
     j \in HeaderPositions, b \in HeaderRowTypes}

InitHeader == WorkerInit /\ probe \in HeaderProbes

ApplyFindHeaderRow ==
  /\ ~probe.done
  /\ probe' = [probe EXCEPT !.done = TRUE, !.result = findHeaderRow(probe.rows)]
  /\ UNCHANGED workerVars
  /\ UNCHANGED serverVars

NextHeader == ApplyFindHeaderRow

SpecHeader == InitHeader /\ [][NextHeader]_vars

\* -------------------------------------------------------------------------
\* parseWorkbook applied to the row grids of the sheets of a workbook
\* -------------------------------------------------------------------------

\* rows.slice(headerIndex + 1).filter(row => row.some(value => value !== null && value !== ""))
DataRowsBelow(rows, headerIndex) ==
  SelectSeq(SubSeq(rows, headerIndex + 2, Len(rows)),
            LAMBDA row : \E i \in DOMAIN row : ~IsBlank(row[i]))

\* processSheet recording a summary also for a sheet without header row
processSheetSummarisingAll(rows, sheetName, agg, now) ==
  IF rows = <<>> THEN PushSummary(agg, sheetName, 0 - 1, <<>>, 0)
  ELSE LET headerInfo == findHeaderRow(rows)
       IN IF ~headerInfo.found THEN PushSummary(agg, sheetName, 0 - 1, <<>>, 0)
          ELSE LET dataRows == DataRowsBelow(rows, headerInfo.headerIndex)
                   descs == describeColumns(headerInfo.headers, rows, headerInfo.headerIndex)
               IN IF dataRows = <<>> THEN agg
                  ELSE ProcessDataRows(
                         PushSummary(agg, sheetName, headerInfo.headerIndex, descs, Len(dataRows)),
                         descs, dataRows,
                         [sheetName |-> sheetName, rowIndex |-> headerInfo.headerIndex + 1], now)

\* processSheet(rows, sheetName, aggregation)
processSheet(rows, sheetName, agg, now) ==
  IF rows = <<>> THEN agg
  ELSE LET headerInfo == findHeaderRow(rows)
       IN IF ~headerInfo.found THEN agg
          ELSE LET dataRows == DataRowsBelow(rows, headerInfo.headerIndex)
                   descs == describeColumns(headerInfo.headers, rows, headerInfo.headerIndex)
               IN IF dataRows = <<>> THEN agg
                  ELSE ProcessDataRows(
                         PushSummary(agg, sheetName, headerInfo.headerIndex, descs, Len(dataRows)),
                         descs, dataRows,
                         [sheetName |-> sheetName, rowIndex |-> headerInfo.headerIndex + 1], now)

\* workbook.SheetNames.forEach: the aggregation after each of the first n sheets
RECURSIVE AfterSheets(_, _, _, _)
AfterSheets(excelMeta, workbook, n, now) ==
  IF n = 0
  THEN createAggregation(excelMeta, [i \in DOMAIN workbook |-> workbook[i].name], now)
  ELSE processSheet(workbook[n].rows, workbook[n].name,
                    AfterSheets(excelMeta, workbook, n - 1, now), now)

\* parseWorkbook(excelMeta, workbook)
parseWorkbook(excelMeta, workbook, now) ==
  parseWorkbookResult(AfterSheets(excelMeta, workbook, Len(workbook), now))

Chars_Datum == <<"D", "a", "t", "u", "m">>
Chars_Pulse == <<"P", "u", "l", "s", "e">>
Chars_Blodtryck == <<"B", "l", "o", "d", "t", "r", "y", "c", "k">>
Chars_Tidpunkt == <<"T", "i", "d", "p", "u", "n", "k", "t">>

GridEmpty == <<>>

GridBlank == <<RowBlank, RowBlank>>

\* The filled rows lie under the rows that findHeaderRow scans
GridLate ==
  [k \in 1 .. (HEADER_SCAN_ROWS + 2) |->
     IF k <= HEADER_SCAN_ROWS THEN RowBlank
     ELSE IF k = HEADER_SCAN_ROWS + 1 THEN <<Str(Chars_Datum), Str(Chars_Pulse), NullCell>>
     ELSE <<Num(1), Num(72), NullCell>>]

GridHeaderOnly == << <<Str(Chars_Datum), Str(Chars_Pulse)>> >>

GridPulseA == << <<Str(Chars_Datum), Str(Chars_Pulse)>>, <<Num(1), Num(72)>> >>

GridPulseB ==
  << RowBlank, <<Str(Chars_Datum), Str(Chars_Pulse)>>, <<Num(2), Num(75)>>, RowBlank,
     <<NullCell, Num(300)>> >>

GridBp == << <<Str(Chars_Blodtryck), Str(Chars_Tidpunkt)>>, <<Str(Text120over80), Num(1)>> >>

\* The third column has no header text and cells that look like blood pressure
GridMixed ==
  << <<Str(Chars_Pulse), Str(Chars_Datum), NullCell>>, <<Num(72), Num(1), Str(Text120over80)>> >>

Grids ==
  {GridEmpty, GridBlank, GridLate, GridHeaderOnly, GridPulseA, GridPulseB, GridBp, GridMixed}

Workbooks ==
  UNION {{[i \in 1 .. n |-> [name |-> SheetName(i), rows |-> grids[i]]] : grids \in [1 .. n -> Grids]} :
         n \in 1 .. (MaxSheets + 1)}

WorkbookProbes ==
  {[workbook |-> w, now |-> now, done |-> FALSE, after |-> <<>>] : w \in Workbooks, now \in Clock}

InitWorkbook == WorkerInit /\ probe \in WorkbookProbes

\* parseWorkbook and the post of its result; after[n + 1] is the aggregation
\* after n sheets
ApplyParseWorkbook ==
  /\ ~probe.done
  /\ probe' = [probe EXCEPT !.done = TRUE,
                            !.after = [k \in 1 .. (Len(probe.workbook) + 1) |->
                                         AfterSheets(meta, probe.workbook, k - 1, probe.now)]]
  /\ messages' = <<[success |-> TRUE, data |-> parseWorkbook(meta, probe.workbook, probe.now)]>>
  /\ UNCHANGED <<pc, meta, aggregation, sheetCount, sheetIndex, descriptors, rowsLeft, rowMeta,
                 appended, accepted>>
  /\ UNCHANGED serverVars

NextWorkbook == ApplyParseWorkbook

SpecWorkbook == InitWorkbook /\ [][NextWorkbook]_vars

\* -------------------------------------------------------------------------
\* detectDeclaredRole applied on its own to the normalized header of a column
\* -------------------------------------------------------------------------
SeqRange(seq) == {seq[i] : i \in DOMAIN seq}

HeaderFragments ==
  SeqRange(DATE_KEYWORDS) \cup SeqRange(TIME_KEYWORDS) \cup SeqRange(DATETIME_KEYWORDS)
  \cup {<<>>, <<" ">>, <<"x">>, <<"P", "u", "l", "s">>, <<"D", "A", "T", "U", "M">>,
         <<"T", "i", "d">>, <<"v", "ä", "r", "d", "e">>}

\* Header labels as findHeaderRow produces them: trimmed and not empty
RoleHeaders == {Trim(a \o b) : a \in HeaderFragments, b \in HeaderFragments} \ {<<>>}

RoleProbes == {[header |-> h, done |-> FALSE, result |-> "none"] : h \in RoleHeaders}

InitRole == WorkerInit /\ probe \in RoleProbes

ApplyDetectDeclaredRole ==
  /\ ~probe.done
  /\ probe' = [probe EXCEPT !.done = TRUE,
                            !.result = detectDeclaredRole(normalizeText(probe.header))]
  /\ UNCHANGED workerVars
  /\ UNCHANGED serverVars

NextRole == ApplyDetectDeclaredRole

SpecRole == InitRole /\ [][NextRole]_vars

\* -------------------------------------------------------------------------
\* matchParameter applied on its own to the normalized header of a column
\* -------------------------------------------------------------------------
MatchFragments ==
  {<<>>, <<"x">>, <<"s", "t", "e", "g">>, <<"S", "y", "s", "t", "o", "l", "i", "s", "k", "t">>,
   <<"b", "l", "o", "d", "t", "r", "y", "c", "k">>, <<"L", "D", "L">>, <<"H", "D", "L">>,
   <<"V", "i", "k", "t">>, <<"k", "g">>, <<"B", "P">>, <<"s", "y", "s">>,
   <<"S", "ö", "m", "n">>, <<"Ö", "v", "r", "e">>, <<"p", "u", "l", "s">>,
   <<"k", "o", "l", "e", "s", "t", "e", "r", "o", "l">>}

\* Header labels as findHeaderRow produces them: trimmed and not empty
MatchHeaders == {Trim(a \o <<" ">> \o b) : a \in MatchFragments, b \in MatchFragments} \ {<<>>}

MatchProbes == {[header |-> h, done |-> FALSE, result |-> "none"] : h \in MatchHeaders}

InitMatch == WorkerInit /\ probe \in MatchProbes

ApplyMatchParameter ==
  /\ ~probe.done
  /\ probe' = [probe EXCEPT !.done = TRUE,
                            !.result = matchParameter(normalizeText(probe.header))]
  /\ UNCHANGED workerVars
  /\ UNCHANGED serverVars

NextMatch == ApplyMatchParameter

SpecMatch == InitMatch /\ [][NextMatch]_vars

\* -------------------------------------------------------------------------
\* findHeaderRow and describeColumns applied to a sheet of three columns: a
\* date column, a pulse column and a third column with the header cell and the
\* cells of the input
\* -------------------------------------------------------------------------
MaxBlankCells == 10

Text120spaced == <<"1", "2", "0", " ", "/", " ", "8", "0">>

Text1over80 == <<"1", "/", "8", "0">>

ColumnHeaderCells ==
  {NullCell, Str(<<" ">>), Str(<<"x", "y", "z">>), Str(<<"V", "ä", "r", "d", "e">>),
   Str(Chars_Blodtryck), Str(Chars_Pulse), Str(Chars_Datum), Str(<<"T", "i", "d">>)}

SampleCells ==
  {Num(0), Num(1), Str(Text120over80), Str(Text120spaced), Str(Text1over80), Str(<<"x">>)}

\* n blank cells, null and empty text in turn
BlankCells(n) == [i \in 1 .. n |-> IF i % 2 = 1 THEN NullCell ELSE Str(<<>>)]

ProbedColumnCells ==
  {<<>>}
  \cup {BlankCells(n) \o <<c>> : n \in 0 .. MaxBlankCells, c \in SampleCells}
  \cup {<<c, d>> : c \in SampleCells, d \in SampleCells}

\* The sheet: blank rows, the header row, one row per cell of the third column
ColumnGrid(above, header, cells) ==
  [i \in 1 .. above |-> RowBlank]
  \o << <<Str(Chars_Datum), Str(Chars_Pulse), header>> >>
  \o [i \in DOMAIN cells |-> <<Num(1), Num(72), cells[i]>>]

ColumnProbes ==
  {[rows |-> ColumnGrid(above, header, cells), done |-> FALSE, headerIndex |-> 0 - 1,
    descriptors |-> <<>>] :
     above \in 0 .. 1, header \in ColumnHeaderCells, cells \in ProbedColumnCells}

InitColumns == WorkerInit /\ probe \in ColumnProbes

\* The header detection and column description of processSheet
ApplyDescribeColumns ==
  /\ ~probe.done
  /\ LET headerInfo == findHeaderRow(probe.rows)
     IN probe' = [probe EXCEPT !.done = TRUE,
                               !.headerIndex = headerInfo.headerIndex,
                               !.descriptors = describeColumns(headerInfo.headers, probe.rows,
                                                               headerInfo.headerIndex)]
  /\ UNCHANGED workerVars
  /\ UNCHANGED serverVars

NextColumns == ApplyDescribeColumns

SpecColumns == InitColumns /\ [][NextColumns]_vars

\* -------------------------------------------------------------------------
\* deriveTimestamp applied on its own to a row under four columns of roles
\* datetime, date and time
\* -------------------------------------------------------------------------
Text1200 == <<"1", "2", ":", "0", "0">>

TimestampRoles == {"datetime", "date", "time"}

TimestampCells == {NullCell, Str(<<"x">>), Str(Text1200)} \cup {Num(n) : n \in 1 .. MaxSerial}

TimestampLayouts ==
  {[i \in 1 .. 4 |-> Desc(i, Placeholder(i - 1), roles[i], "none")] :
     roles \in [1 .. 4 -> TimestampRoles]}

TimestampProbes ==
  {[descriptors |-> layout, row |-> row, now |-> now, done |-> FALSE, result |-> NoDate] :
     layout \in TimestampLayouts, row \in [1 .. 4 -> TimestampCells], now \in Clock}

InitTimestamp == WorkerInit /\ probe \in TimestampProbes

ApplyDeriveTimestamp ==
  /\ ~probe.done
  /\ probe' = [probe EXCEPT !.done = TRUE,
                            !.result = deriveTimestamp(probe.row, probe.descriptors, probe.now)]
  /\ UNCHANGED workerVars
  /\ UNCHANGED serverVars

NextTimestamp == ApplyDeriveTimestamp

SpecTimestamp == InitTimestamp /\ [][NextTimestamp]_vars

\* =========================================================================
\* Properties
\* =========================================================================
Result == messages[1].data

GenericKeys == ParamKeys \ {"bloodPressureSys", "bloodPressureDia", "bloodPressureCombined"}

AcceptedFor(key) == {accepted[i] : i \in {j \in DOMAIN accepted : accepted[j].key = key}}

\* The ordering of samples: a sample with a timestamp is above every sample
\* without one; timestamps order the samples that have one, the sequence
\* number orders samples of equal timestamp and samples without timestamp
NotAbove(a, b) ==
  IF a.timestamp # NoTs /\ b.timestamp # NoTs
  THEN a.timestamp < b.timestamp \/ (a.timestamp = b.timestamp /\ a.order <= b.order)
  ELSE IF b.timestamp # NoTs THEN TRUE
  ELSE IF a.timestamp # NoTs THEN FALSE
  ELSE a.order <= b.order

\* C1: at the end of a run, for every non-blood-pressure parameter the latest
\* value is the maximal accepted sample (greatest timestamp, then greatest
\* sequence number; samples without timestamp below all others), and it is
\* null when no sample of the parameter was accepted.
C1_LatestIsMaximalAccepted ==
  pc = "posted" =>
    \A key \in GenericKeys :
      LET acc == AcceptedFor(key)
          latest == LatestOf(Result.metrics, key)
      IN IF acc = {} THEN latest = NullSample
         ELSE /\ latest # NullSample
              /\ \E s \in acc :
                   /\ \A o \in acc : NotAbove(o, s)
                   /\ latest.value = s.value
                   /\ latest.timestamp = s.timestamp
                   /\ latest.order = s.order

\* Two accepted heart-rate samples share the greatest timestamp and the later row won
C1_Witness ==
  /\ pc = "posted"
  /\ \E i, j \in DOMAIN accepted :
       /\ i < j
       /\ accepted[i].key = "heartRate" /\ accepted[j].key = "heartRate"
       /\ accepted[i].timestamp # NoTs
       /\ accepted[i].timestamp = accepted[j].timestamp
       /\ accepted[i].value # accepted[j].value
       /\ Result.metrics.latest.heartRate.value = accepted[j].value
       /\ Result.metrics.latest.heartRate.order = accepted[j].order

\* C2: shouldReplaceLatest returns true exactly in the four cases: no current
\* value; both timestamps and candidate >= current; candidate has a timestamp
\* and current has none; neither has one and candidate sequence >= current sequence.
C2_ReplaceExactlyInFourCases ==
  probe.done =>
    LET current == probe.current
        candHasTs == probe.timestamp # NoTs
        curHasTs == current # NullSample /\ current.timestamp # NoTs
        case1 == current = NullSample
        case2 == current # NullSample /\ candHasTs /\ curHasTs
                 /\ probe.timestamp >= current.timestamp
        case3 == current # NullSample /\ candHasTs /\ ~curHasTs
        case4 == current # NullSample /\ ~candHasTs /\ ~curHasTs
                 /\ probe.order >= current.order
    IN probe.result = (case1 \/ case2 \/ case3 \/ case4)

\* A candidate without timestamp and with a higher sequence number was refused
\* against a current value that has a timestamp
C2_Witness ==
  /\ probe.done
  /\ probe.current # NullSample
  /\ probe.current.timestamp # NoTs
  /\ probe.timestamp = NoTs
  /\ probe.order > probe.current.order
  /\ probe.result = FALSE

\* One step of the latest values of all parameters is monotonic
MonotonicStep ==
  (aggregation # NoAggregation /\ aggregation' # NoAggregation) =>
    \A key \in DOMAIN aggregation.metrics.latest :
      LET before == aggregation.metrics.latest[key]
          after == aggregation'.metrics.latest[key]
      IN before # NullSample =>
           /\ after # NullSample
           /\ before.timestamp # NoTs =>
                (after.timestamp # NoTs /\ after.timestamp >= before.timestamp)
           /\ (before.timestamp = NoTs /\ after.timestamp = NoTs) => after.order >= before.order

\* C3: for every parameter, blood pressure included, the latest value never
\* becomes null again, never loses its timestamp, its timestamp never
\* decreases, and while it has no timestamp its sequence number never decreases.
C3_LatestIsMonotonic == [][MonotonicStep]_vars

\* A later row without timestamp was processed and did not replace a latest
\* value that has a timestamp, for heart rate or for blood pressure
C3_Witness ==
  /\ aggregation # NoAggregation
  /\ aggregation.sampleSequence >= 2
  /\ \E key \in {"heartRate", "bloodPressure"} :
       /\ aggregation.metrics.latest[key] # NullSample
       /\ aggregation.metrics.latest[key].timestamp # NoTs
       /\ aggregation.metrics.latest[key].order < aggregation.sampleSequence
  /\ \/ \E i \in DOMAIN accepted :
          /\ accepted[i].key = "heartRate"
          /\ accepted[i].timestamp = NoTs
          /\ accepted[i].order = aggregation.sampleSequence
          /\ aggregation.metrics.latest.heartRate # NullSample
          /\ aggregation.metrics.latest.heartRate.order < accepted[i].order
     \/ /\ "Blodtryck" \in DOMAIN aggregation.dynamicData
        /\ aggregation.dynamicData["Blodtryck"] = Str(Text120over80)
        /\ aggregation.metrics.latest.bloodPressure # NullSample
        /\ aggregation.metrics.latest.bloodPressure.timestamp # NoTs

BpSideInRange(v, min, max) == v = NullV \/ (min <= v /\ v <= max)

MetricsInRange(metrics) ==
  /\ \A key \in DOMAIN metrics.latest :
       metrics.latest[key] # NullSample =>
         IF key = "bloodPressure"
         THEN /\ BpSideInRange(metrics.latest[key].systolic, 40, 300)
              /\ BpSideInRange(metrics.latest[key].diastolic, 20, 200)
         ELSE InRange(key, metrics.latest[key].value)
  /\ \A key \in DOMAIN metrics.trends :
       \A i \in DOMAIN metrics.trends[key] :
         IF key = "bloodPressure"
         THEN /\ BpSideInRange(metrics.trends[key][i].systolic, 40, 300)
              /\ BpSideInRange(metrics.trends[key][i].diastolic, 20, 200)
         ELSE InRange(key, metrics.trends[key][i].value)

\* C4: every numeric value stored in metrics.latest or metrics.trends lies in
\* the plausibility range of its parameter (systolic in [40,300], diastolic in
\* [20,200]); the cell "120/80" decomposes to systolic 120 and diastolic 80,
\* and the values of "999/999" are stored in no latest value and no trend.
C4_StoredValuesInRange ==
  /\ aggregation # NoAggregation => MetricsInRange(aggregation.metrics)
  /\ \A m \in DOMAIN messages : MetricsInRange(messages[m].data.metrics)
  /\ parseBloodPressureCompound(Str(Text120over80)) = [ok |-> TRUE, systolic |-> 120, diastolic |-> 80]
  /\ (/\ aggregation # NoAggregation
      /\ "Blodtryck" \in DOMAIN aggregation.dynamicData
      /\ aggregation.dynamicData["Blodtryck"] = Str(Text120over80)
      /\ aggregation.metrics.latest.bloodPressure # NullSample
      /\ aggregation.metrics.latest.bloodPressure.order = aggregation.sampleSequence)
     => (/\ aggregation.metrics.latest.bloodPressure.systolic = 120
         /\ aggregation.metrics.latest.bloodPressure.diastolic = 80)

\* A "120/80" row was stored as 120 over 80 and a later "999/999" row left it in place
C4_Witness ==
  /\ aggregation # NoAggregation
  /\ aggregation.metrics.latest.bloodPressure # NullSample
  /\ aggregation.metrics.latest.bloodPressure.systolic = 120
  /\ aggregation.metrics.latest.bloodPressure.diastolic = 80
  /\ aggregation.metrics.latest.bloodPressure.order < aggregation.sampleSequence
  /\ "Blodtryck" \in DOMAIN aggregation.dynamicData
  /\ aggregation.dynamicData["Blodtryck"] = Str(Text999over999)

\* The registry parameters whose values feed the trend of a key
TrendProducers(key) ==
  IF key = "bloodPressure"
  THEN {"bloodPressureSys", "bloodPressureDia", "bloodPressureCombined"}
  ELSE {key}

\* C5: every entry of every trend has a timestamp and was produced by a
\* parameter flagged timeline-eligible in the registry, the blood-pressure
\* trend included.
C5_TrendsOnlyFromTimelineParameters ==
  aggregation # NoAggregation =>
    \A key \in DOMAIN aggregation.metrics.trends :
      \A i \in DOMAIN aggregation.metrics.trends[key] :
        /\ aggregation.metrics.trends[key][i].timestamp # NoTs
        /\ \E p \in TrendProducers(key) : PARAMETER_META(p).timeline

Timestamps(entries) == {entries[i].timestamp : i \in DOMAIN entries}

WithTimestamp(entries, t) == SelectSeq(entries, LAMBDA e : e.timestamp = t)

\* C6: in the returned result every trend is a permutation of the appended
\* samples in ascending timestamp order, entries of equal timestamp in the
\* order in which they were appended.
C6_TrendsStablySorted ==
  pc = "posted" =>
    \A key \in DOMAIN Result.metrics.trends :
      LET sorted == Result.metrics.trends[key]
          inOrder == appended[key]
      IN /\ Len(sorted) = Len(inOrder)
         /\ \A i, j \in DOMAIN sorted : i < j => sorted[i].timestamp <= sorted[j].timestamp
         /\ \A t \in Timestamps(sorted) \cup Timestamps(inOrder) :
              WithTimestamp(sorted, t) = WithTimestamp(inOrder, t)

\* A trend whose samples were appended in descending timestamp order was reordered
C6_Witness ==
  /\ pc = "posted"
  /\ \E key \in DOMAIN Result.metrics.trends :
       /\ Len(appended[key]) >= 2
       /\ appended[key][1].timestamp > appended[key][2].timestamp
       /\ Result.metrics.trends[key][1] = appended[key][2]
       /\ Result.metrics.trends[key] # appended[key]

\* A string cell with content other than whitespace
IsTextCell(cell) == cell.kind = "str" /\ \E i \in DOMAIN cell.s : ~IsSpace(cell.s[i])

\* The density score of a row: 2 per string cell with content, 1 per other non-empty cell
DensityScore(row) ==
  2 * Cardinality({c \in DOMAIN row : IsTextCell(row[c])})
  + Cardinality({c \in DOMAIN row : ~IsTextCell(row[c]) /\ ~IsBlank(row[c])})

\* C7: findHeaderRow considers the first 20 rows only and returns the lowest
\* index among the rows of maximal density score (none when that score is 0
\* or the sheet is empty); a row beyond index 19 is never selected.
C7_HeaderIsFirstDensestRow ==
  probe.done =>
    LET rows == probe.rows
        scanned == 1 .. Min(Len(rows), HEADER_SCAN_ROWS)
        positive == {i \in scanned : DensityScore(rows[i]) > 0}
    IN IF positive = {} THEN probe.result = NoHeader
       ELSE /\ probe.result.found
            /\ probe.result.headerIndex + 1 \in scanned
            /\ \A i \in scanned :
                 /\ DensityScore(rows[i]) <= DensityScore(rows[probe.result.headerIndex + 1])
                 /\ i < probe.result.headerIndex + 1 =>
                      DensityScore(rows[i]) < DensityScore(rows[probe.result.headerIndex + 1])

\* Two of the first 20 rows share the maximal score, a row beyond index 19
\* scores higher, and the first of the two was returned
C7_Witness ==
  /\ probe.done
  /\ probe.result.found
  /\ Len(probe.rows) > HEADER_SCAN_ROWS
  /\ \E k \in (HEADER_SCAN_ROWS + 1) .. Len(probe.rows) :
       DensityScore(probe.rows[k]) > DensityScore(probe.rows[probe.result.headerIndex + 1])
  /\ \E j \in 1 .. HEADER_SCAN_ROWS :
       /\ j > probe.result.headerIndex + 1
       /\ DensityScore(probe.rows[j]) = DensityScore(probe.rows[probe.result.headerIndex + 1])

\* C8: the emitted rawData has at most MAX_RAW_ITEMS entries and no duplicate label.
C8_RawDataCappedAndDistinct ==
  pc = "posted" =>
    /\ Len(Result.rawData) <= MAX_RAW_ITEMS
    /\ \A i, j \in DOMAIN Result.rawData : i # j => Result.rawData[i] # Result.rawData[j]

\* More labels than the cap were collected, over more than one row, and the cap was applied
C8_Witness ==
  /\ pc = "posted"
  /\ Len(aggregation.rawLabelSet) > MAX_RAW_ITEMS
  /\ aggregation.sampleSequence >= 2
  /\ Len(Result.rawData) = MAX_RAW_ITEMS

\* C9: when reading the file or a step of parseWorkbook fails, the worker
\* posts one message carrying the fallback result: all latest values null,
\* all trends empty, rawData and dynamicData empty, error a non-empty string.
C9_FailureYieldsFallback ==
  pc = "failed" =>
    /\ Len(messages) = 1
    /\ messages[1].success
    /\ \A key \in DOMAIN Result.metrics.latest : Result.metrics.latest[key] = NullSample
    /\ \A key \in DOMAIN Result.metrics.trends : Result.metrics.trends[key] = <<>>
    /\ Result.rawData = <<>>
    /\ Result.dynamicData = <<>>
    /\ "error" \in DOMAIN Result
    /\ Result.error # ""

\* parseWorkbook failed after it had processed a sheet
C9_Witness ==
  /\ pc = "failed"
  /\ sheetIndex >= 1
  /\ Len(messages) = 1

ResultFields ==
  {"filename", "uploadedAt", "parsedAt", "sheetNames", "sheetSummaries", "metrics",
   "rawData", "dynamicData", "heartData"}

\* C10: the fallback result has the top-level fields of a successful result
\* plus error, and a successful result has no error field.
C10_UniformResultShape ==
  /\ pc = "failed" => DOMAIN Result = ResultFields \cup {"error"}
  /\ pc = "posted" => DOMAIN Result = ResultFields

WithoutParsedAt(result) == [k \in DOMAIN result \ {"parsedAt"} |-> result[k]]

\* C11: two runs on the same workbook and the same metadata give results that
\* are equal in every field except parsedAt, also when a row has a time column
\* and no date, and when the metadata has no uploadedAt.
C11_RunsAgreeExceptParsedAt ==
  Len(messages) = 2 =>
    WithoutParsedAt(messages[1].data) = WithoutParsedAt(messages[2].data)

\* The step is the processing of the given data row
IsRowStep(row) == pc = "rows" /\ \E now \in Clock : ProcessRow(row, now)

BpBefore == aggregation.metrics.latest.bloodPressure

BpAfter == aggregation'.metrics.latest.bloodPressure

BpMergeStep ==
  pc = "rows" =>
    \A row \in RowsUnder(descriptors) :
      IsRowStep(row) =>
        LET rowValues == extractRowValues(row, descriptors)
        IN /\ (BpBefore # NullSample /\ BpBefore.systolic # NullV) =>
                (BpAfter # NullSample /\ BpAfter.systolic # NullV)
           /\ (BpBefore # NullSample /\ BpBefore.diastolic # NullV) =>
                (BpAfter # NullSample /\ BpAfter.diastolic # NullV)
           /\ (BpBefore # NullSample /\ BpAfter # BpBefore /\ ~Has(rowValues, "diastolic")) =>
                BpAfter.diastolic = BpBefore.diastolic
           /\ (BpBefore # NullSample /\ BpAfter # BpBefore /\ ~Has(rowValues, "systolic")) =>
                BpAfter.systolic = BpBefore.systolic

\* C15: a non-null systolic (diastolic) side of the latest blood pressure stays
\* non-null, and when a row supplying one side only replaces the latest value
\* the other side keeps the value it had.
C15_BpSidesNotOverwrittenByAbsence == [][BpMergeStep]_vars

\* The latest blood pressure was replaced by the second row and holds the
\* systolic side of one row and the diastolic side of the other
C15_Witness ==
  /\ aggregation # NoAggregation
  /\ BpBefore # NullSample
  /\ BpBefore.order = 2
  /\ BpBefore.systolic = 120
  /\ BpBefore.diastolic = 80
  /\ aggregation.metrics.trends.bloodPressure = <<>>
  /\ "Systoliskt" \in DOMAIN aggregation.dynamicData
  /\ "Diastoliskt" \in DOMAIN aggregation.dynamicData

BpTrendBefore == aggregation.metrics.trends.bloodPressure

BpTrendAfter == aggregation'.metrics.trends.bloodPressure

BpTrendStep ==
  pc = "rows" =>
    \A row \in RowsUnder(descriptors) :
      IsRowStep(row) =>
        LET rowValues == extractRowValues(row, descriptors)
            timestamp == deriveTimestamp(row, descriptors, CHOOSE now \in Clock : TRUE)
        IN IF Has(rowValues, "systolic") /\ Has(rowValues, "diastolic") /\ timestamp.ok
           THEN \/ BpTrendAfter = BpTrendBefore
                \/ /\ Len(BpTrendAfter) = Len(BpTrendBefore) + 1
                   /\ SubSeq(BpTrendAfter, 1, Len(BpTrendBefore)) = BpTrendBefore
                   /\ BpTrendAfter[Len(BpTrendAfter)].systolic = rowValues.systolic
                   /\ BpTrendAfter[Len(BpTrendAfter)].diastolic = rowValues.diastolic
                   /\ BpTrendAfter[Len(BpTrendAfter)].timestamp = timestamp.t
           ELSE BpTrendAfter = BpTrendBefore

\* C16: every entry of the blood-pressure trend holds the systolic and the
\* diastolic value of one row that had a timestamp; a row with one side only or
\* without timestamp appends nothing.
C16_BpTrendEntriesComplete == [][BpTrendStep]_vars

\* The second row had a timestamp and one side only: it replaced the latest
\* value and left the trend with the entry of the first row
C16_Witness ==
  /\ aggregation # NoAggregation
  /\ Len(BpTrendBefore) = 1
  /\ BpBefore # NullSample
  /\ BpBefore.order = 2
  /\ BpBefore.timestamp # NoTs
  /\ BpBefore.timestamp # BpTrendBefore[1].timestamp

OutOfRangeStep ==
  /\ pc' = "posted" => "error" \notin DOMAIN messages'[1].data
  /\ pc = "rows" =>
    \A row \in RowsUnder(descriptors) :
      IsRowStep(row) =>
        LET rowValues == extractRowValues(row, descriptors)
            ts == deriveTimestamp(row, descriptors, CHOOSE now \in Clock : TRUE)
            iso == IF ts.ok THEN ts.t ELSE NoTs
            generic == DOMAIN rowValues \ {"systolic", "diastolic"}
            before == aggregation.metrics
            after == aggregation'.metrics
        IN \A key \in generic :
             IF ~InRange(key, rowValues[key])
             THEN /\ LatestOf(after, key) = LatestOf(before, key)
                  /\ TrendOf(after, key) = TrendOf(before, key)
             ELSE /\ (iso # NoTs /\ PARAMETER_META(key).timeline) =>
                       TrendOf(after, key) =
                         Append(TrendOf(before, key),
                                [value |-> rowValues[key], timestamp |-> iso, sheet |-> rowMeta.sheetName])
                  /\ shouldReplaceLatest(LatestOf(before, key), iso, aggregation'.sampleSequence) =>
                       /\ LatestOf(after, key).value = rowValues[key]
                       /\ LatestOf(after, key).order = aggregation'.sampleSequence

\* C17: an out-of-range value of a generic parameter leaves the latest value
\* and the trend of that parameter unchanged, sets no error, and the in-range
\* values of the other parameters of the row are applied.
C17_OutOfRangeDroppedAlone == [][OutOfRangeStep]_vars

\* A row with an out-of-range heart rate and an in-range AF burden was
\* processed: no heart rate is stored and the AF burden of the row is the latest
C17_Witness ==
  /\ aggregation # NoAggregation
  /\ "Pulse" \in DOMAIN aggregation.dynamicData
  /\ aggregation.dynamicData["Pulse"] = Num(300)
  /\ LatestOf(aggregation.metrics, "heartRate") = NullSample
  /\ LatestOf(aggregation.metrics, "afBurden") # NullSample
  /\ LatestOf(aggregation.metrics, "afBurden").order = aggregation.sampleSequence
  /\ aggregation.sampleSequence = 1

RECURSIVE SumRowCounts(_)
SumRowCounts(summaries) ==
  IF summaries = <<>> THEN 0
  ELSE SumRowCounts(SubSeq(summaries, 1, Len(summaries) - 1)) + summaries[Len(summaries)].rowCount

SequenceStep ==
  /\ (pc = "init" /\ pc' = "sheets") => aggregation'.sampleSequence = 0
  /\ (pc = "rows" /\ aggregation' # NoAggregation) =>
       /\ aggregation'.sampleSequence = aggregation.sampleSequence + 1
       /\ \A key \in DOMAIN aggregation'.metrics.latest :
            LET before == LatestOf(aggregation.metrics, key)
                after == aggregation'.metrics.latest[key]
            IN after # before => after.order = aggregation'.sampleSequence
  /\ (pc = "sheets" /\ aggregation' # NoAggregation) =>
       aggregation'.sampleSequence = aggregation.sampleSequence
  /\ pc' = "posted" =>
       aggregation'.sampleSequence = SumRowCounts(messages'[1].data.sheetSummaries)

\* C18: the sequence counter starts at 0, grows by exactly 1 with every
\* processed data row whatever the row yields, is not reset between sheets,
\* equals the sum of the row counts of the sheet summaries at the end of the
\* run, and a latest value carries the counter value of the row that set it.
C18_SequenceCountsRows == [][SequenceStep]_vars

\* Two sheets of one row each: the row of the first sheet yielded no value and
\* the heart rate of the row of the second sheet carries the sequence number 2
C18_Witness ==
  /\ pc = "posted"
  /\ Len(Result.sheetSummaries) = 2
  /\ aggregation.sampleSequence = 2
  /\ Len(accepted) = 1
  /\ Result.metrics.latest.bloodPressure = NullSample
  /\ Result.metrics.latest.heartRate # NullSample
  /\ Result.metrics.latest.heartRate.order = 2

ContainsOneOf(text, keywords) == \E kw \in SeqRange(keywords) : Includes(text, kw)

\* C20: the declared role of a column is datetime when the normalized header
\* contains a datetime keyword, otherwise date when it contains a date keyword,
\* otherwise time when it contains a time keyword, otherwise value.
C20_DeclaredRoleByPriority ==
  probe.done =>
    LET normalized == normalizeText(probe.header)
    IN /\ ContainsOneOf(normalized, DATETIME_KEYWORDS) => probe.result = "datetime"
       /\ (~ContainsOneOf(normalized, DATETIME_KEYWORDS)
           /\ ContainsOneOf(normalized, DATE_KEYWORDS)) => probe.result = "date"
       /\ (~ContainsOneOf(normalized, DATETIME_KEYWORDS)
           /\ ~ContainsOneOf(normalized, DATE_KEYWORDS)
           /\ ContainsOneOf(normalized, TIME_KEYWORDS)) => probe.result = "time"
       /\ (~ContainsOneOf(normalized, DATETIME_KEYWORDS)
           /\ ~ContainsOneOf(normalized, DATE_KEYWORDS)
           /\ ~ContainsOneOf(normalized, TIME_KEYWORDS)) => probe.result = "value"

\* A header with a datetime keyword, a date keyword and a time keyword was
\* given the role datetime
C20_Witness ==
  /\ probe.done
  /\ "header" \in DOMAIN probe
  /\ ContainsOneOf(normalizeText(probe.header), DATETIME_KEYWORDS)
  /\ ContainsOneOf(normalizeText(probe.header), DATE_KEYWORDS)
  /\ ContainsOneOf(normalizeText(probe.header), TIME_KEYWORDS)
  /\ probe.result = "datetime"

\* The sheet has no row, or every scanned row has the density score 0
ContributesNothing(rows) ==
  \/ rows = <<>>
  \/ \A k \in 1 .. Min(Len(rows), HEADER_SCAN_ROWS) : DensityScore(rows[k]) = 0

WithoutSheet(workbook, i) ==
  SubSeq(workbook, 1, i - 1) \o SubSeq(workbook, i + 1, Len(workbook))

WithoutSheetNames(result) == [k \in DOMAIN result \ {"sheetNames"} |-> result[k]]

\* C19: a sheet without rows or with best header score 0 leaves the
\* aggregation (summaries, metrics, labels, dynamicData, sequence counter)
\* unchanged, sets no error, and the result is the one of the workbook without
\* that sheet.
C19_SkippedSheetContributesNothing ==
  probe.done =>
    \A i \in DOMAIN probe.workbook :
      ContributesNothing(probe.workbook[i].rows) =>
        /\ probe.after[i + 1] = probe.after[i]
        /\ "error" \notin DOMAIN Result
        /\ WithoutSheetNames(Result) =
             WithoutSheetNames(parseWorkbook(meta, WithoutSheet(probe.workbook, i), probe.now))

\* A sheet with 20 blank rows above its filled rows lies between two sheets
\* that both contributed rows
C19_Witness ==
  /\ probe.done
  /\ "workbook" \in DOMAIN probe
  /\ Len(probe.workbook) = 3
  /\ probe.workbook[2].rows = GridLate
  /\ Len(Result.sheetSummaries) = 2
  /\ Result.sheetSummaries[1].sheetName = SheetName(1)
  /\ Result.sheetSummaries[2].sheetName = SheetName(3)
  /\ probe.after[4].sampleSequence > probe.after[2].sampleSequence
  /\ probe.after[2].sampleSequence > 0

\* -------------------------------------------------------------------------
\* C12: every run of the worker ends up having posted exactly one message,
\* whether the workbook was parsed or the parse failed, and from then on the
\* promise of runExcelParser is resolved with the data of that message; it
\* is not rejected.  (messages only grows, so no message precedes that one.)
\* -------------------------------------------------------------------------
C12_OneMessageResolvesPromise ==
  <>[](/\ Len(messages) = 1
       /\ promise = [state |-> "resolved", value |-> messages[1].data])

\* A parse failed and the promise is resolved with the fallback that was posted
C12_Witness ==
  /\ pc = "failed"
  /\ Len(messages) = 1
  /\ promise = [state |-> "resolved", value |-> createFallbackExcelContent(meta)]

\* -------------------------------------------------------------------------
\* The transfer server: transfers, session codes, uploads and the cache of
\* parsed Excel content
\* -------------------------------------------------------------------------
MaxTransfers == 3

MaxUploads == 2

MaxParserRuns == 2

MaxHandlers == 2

Patients == {"p1"}

\* req.body without a patientId
NoPatient == ""

Filenames == {"a.xlsx"}

\* The codes generateSessionCode can return
Codes == 1 .. MaxTransfers

\* A run of the parser whose worker has not read the file yet
Unread == 0 - 1

\* The file was gone when the worker read it: the worker posts the fallback
Missing == 0

Range(f) == {f[k] : k \in DOMAIN f}

MapSet(f, k, v) == [x \in DOMAIN f \cup {k} |-> IF x = k THEN v ELSE f[x]]

MapDelete(f, k) == [x \in DOMAIN f \ {k} |-> f[x]]

getExcelCacheKey(transferId, filename) == <<transferId, filename>>

Store ==
  [transfers |-> transfers, patientTransfers |-> patientTransfers,
   sessionCodes |-> sessionCodes, excelContentCache |-> excelContentCache, disk |-> disk]

SetStore(st) ==
  /\ transfers' = st.transfers
  /\ patientTransfers' = st.patientTransfers
  /\ sessionCodes' = st.sessionCodes
  /\ excelContentCache' = st.excelContentCache
  /\ disk' = st.disk

removeSessionCodeForTransfer(codes, transferId) ==
  [c \in {d \in DOMAIN codes : codes[d].transferId # transferId} |-> codes[c]]

\* code is what generateSessionCode returned: a code not in use
registerSessionCode(codes, transferId, code) ==
  MapSet(removeSessionCodeForTransfer(codes, transferId), code, [transferId |-> transferId])

deleteTransferData(st, transferId) ==
  [st EXCEPT
     !.disk = [k \in {d \in DOMAIN st.disk : d[1] # transferId} |-> st.disk[k]],
     !.transfers = MapDelete(st.transfers, transferId),
     !.sessionCodes = removeSessionCodeForTransfer(st.sessionCodes, transferId),
     !.excelContentCache =
        [k \in {c \in DOMAIN st.excelContentCache : c[1] # transferId} |-> st.excelContentCache[k]]]

removeTransferForPatient(st, patientId) ==
  IF patientId # NoPatient /\ patientId \in DOMAIN st.patientTransfers
  THEN [deleteTransferData(st, st.patientTransfers[patientId]) EXCEPT
          !.patientTransfers = MapDelete(st.patientTransfers, patientId)]
  ELSE st

\* { status: "open", files: [] }
NewTransfer == [status |-> "open", files |-> <<>>]

\* GET /api/transfers?patientId=...
GetApiTransfers(patientId, code) ==
  /\ deployment = "express"
  /\ patientId # NoPatient
  /\ nextId < MaxTransfers
  /\ LET newId == nextId + 1
         cleared == removeTransferForPatient(Store, patientId)
     IN /\ code \notin DOMAIN cleared.sessionCodes
        /\ SetStore([cleared EXCEPT
                       !.transfers = MapSet(cleared.transfers, newId, NewTransfer),
                       !.patientTransfers = MapSet(cleared.patientTransfers, patientId, newId),
                       !.sessionCodes = registerSessionCode(cleared.sessionCodes, newId, code)])
        /\ nextId' = newId
        /\ everMapped' = everMapped \cup {newId}
        /\ lastCreated' = MapSet(lastCreated, patientId, newId)
  /\ UNCHANGED <<deployment, uploadCount, parserRuns, lastResponse, handlers, blobKeys, blobMapping,
                 everCancelled, mmdSessionCodes>>
  /\ UNCHANGED <<workerVars, probe, promise>>

\* POST /api/transfers with or without a patientId in the body
PostApiTransfers(patientId, code) ==
  /\ deployment = "express"
  /\ nextId < MaxTransfers
  /\ LET id == nextId + 1
         created == [Store EXCEPT !.transfers = MapSet(transfers, id, NewTransfer)]
         cleared == removeTransferForPatient(created, patientId)
         mapped == IF patientId # NoPatient
                   THEN [cleared EXCEPT !.patientTransfers = MapSet(cleared.patientTransfers, patientId, id)]
                   ELSE cleared
     IN /\ code \notin DOMAIN mapped.sessionCodes
        /\ SetStore([mapped EXCEPT !.sessionCodes = registerSessionCode(mapped.sessionCodes, id, code)])
        /\ nextId' = id
        /\ everMapped' = IF patientId # NoPatient THEN everMapped \cup {id} ELSE everMapped
        /\ lastCreated' = IF patientId # NoPatient THEN MapSet(lastCreated, patientId, id) ELSE lastCreated
  /\ UNCHANGED <<deployment, uploadCount, parserRuns, lastResponse, handlers, blobKeys, blobMapping,
                 everCancelled, mmdSessionCodes>>
  /\ UNCHANGED <<workerVars, probe, promise>>

\* A run of runExcelParser on uploads/<transferId>/<name> with the given metadata
ParserRun(transferId, name, uploadedAt, kind, latest) ==
  [transferId |-> transferId, name |-> name, uploadedAt |-> uploadedAt, content |-> Unread,
   kind |-> kind, latest |-> latest]

\* preloadExcelContent up to the call of runExcelParser: the runs after it
preloadExcelContent(runs, cache, onDisk, transferId, fileMeta) ==
  LET cacheKey == getExcelCacheKey(transferId, fileMeta.name)
  IN IF cacheKey \in DOMAIN cache /\ cache[cacheKey].uploadedAt = fileMeta.uploadedAt THEN runs
     ELSE IF cacheKey \notin DOMAIN onDisk THEN runs
     ELSE runs \cup {ParserRun(transferId, fileMeta.name, fileMeta.uploadedAt, "preload",
                               fileMeta.uploadedAt)}

\* POST /api/upload?transferId=... without blob storage: multer has written the
\* file under its original name; the handler re-creates a missing transfer,
\* reopens a closed one, answers 410 unless the transfer is open, and otherwise
\* records the file and preloads its parse
Upload(transferId, name) ==
  /\ deployment = "express"
  /\ uploadCount < MaxUploads
  /\ Cardinality(parserRuns) < MaxParserRuns
  /\ LET found == IF transferId \in DOMAIN transfers THEN transfers[transferId] ELSE NewTransfer
         t == IF found.status = "closed" THEN [found EXCEPT !.status = "open"] ELSE found
         now == uploadCount + 1
         fileMeta == [name |-> name, uploadedAt |-> now]
         written == MapSet(disk, getExcelCacheKey(transferId, name), now)
     IN /\ uploadCount' = now
        /\ disk' = written
        /\ IF t.status # "open"
           THEN UNCHANGED <<transfers, parserRuns>>
           ELSE /\ transfers' = MapSet(transfers, transferId, [t EXCEPT !.files = Append(t.files, fileMeta)])
                /\ parserRuns' = preloadExcelContent(parserRuns, excelContentCache, written, transferId, fileMeta)
  /\ UNCHANGED <<deployment, nextId, patientTransfers, sessionCodes, excelContentCache,
                 lastResponse, handlers, blobKeys, blobMapping, everMapped, lastCreated, everCancelled, mmdSessionCodes>>
  /\ UNCHANGED <<workerVars, probe, promise>>

\* POST /api/complete?transferId=...: a missing transfer is created, the
\* transfer is marked closed
PostApiComplete(transferId) ==
  /\ deployment = "express"
  /\ LET t == IF transferId \in DOMAIN transfers THEN transfers[transferId] ELSE NewTransfer
     IN transfers' = MapSet(transfers, transferId, [t EXCEPT !.status = "closed"])
  /\ UNCHANGED <<deployment, nextId, uploadCount, patientTransfers, sessionCodes, excelContentCache,
                 disk, parserRuns, lastResponse, handlers, blobKeys, blobMapping, everMapped,
                 lastCreated, everCancelled, mmdSessionCodes>>
  /\ UNCHANGED <<workerVars, probe, promise>>

\* cancelTransfer(transferId, res), behind POST /cancel/:transferId and POST /api/cancel
cancelTransfer(transferId) ==
  /\ deployment = "express"
  /\ transferId \in DOMAIN transfers
  /\ transfers' = MapSet(transfers, transferId, [transfers[transferId] EXCEPT !.status = "cancelled"])
  /\ sessionCodes' = removeSessionCodeForTransfer(sessionCodes, transferId)
  /\ everCancelled' = IF transferId \in DOMAIN everCancelled THEN everCancelled
                      ELSE MapSet(everCancelled, transferId, Len(transfers[transferId].files))
  /\ UNCHANGED <<deployment, nextId, uploadCount, patientTransfers, excelContentCache, disk,
                 parserRuns, lastResponse, handlers, blobKeys, blobMapping, everMapped, lastCreated,
                 mmdSessionCodes>>
  /\ UNCHANGED <<workerVars, probe, promise>>

\* The worker of a run reads the file: readFile(workerData.filePath)
WorkerReads(run) ==
  /\ run \in parserRuns
  /\ run.content = Unread
  /\ LET key == getExcelCacheKey(run.transferId, run.name)
         read == IF key \in DOMAIN disk THEN disk[key] ELSE Missing
     IN parserRuns' = (parserRuns \ {run}) \cup {[run EXCEPT !.content = read]}
  /\ UNCHANGED <<deployment, nextId, uploadCount, transfers, patientTransfers, sessionCodes,
                 excelContentCache, disk, lastResponse, handlers, blobKeys, blobMapping,
                 everMapped, lastCreated, everCancelled, mmdSessionCodes>>
  /\ UNCHANGED <<workerVars, probe, promise>>

\* What the promise of a run resolves with: the parse of the content the worker
\* read (the fallback if there was none) under the metadata the run was given
ParsedData(run) == [content |-> run.content, uploadedAt |-> run.uploadedAt]

\* The .then of preloadExcelContent
PreloadDone(run) ==
  /\ run \in parserRuns
  /\ run.kind = "preload"
  /\ run.content # Unread
  /\ excelContentCache' = MapSet(excelContentCache, getExcelCacheKey(run.transferId, run.name),
                                 [uploadedAt |-> run.uploadedAt, data |-> ParsedData(run)])
  /\ parserRuns' = parserRuns \ {run}
  /\ UNCHANGED <<deployment, nextId, uploadCount, transfers, patientTransfers, sessionCodes,
                 disk, lastResponse, handlers, blobKeys, blobMapping, everMapped, lastCreated, everCancelled, mmdSessionCodes>>
  /\ UNCHANGED <<workerVars, probe, promise>>

\* t.files.find(f => f.name === filename && ...): the first file of that name
Find(files, name) ==
  LET hits == {i \in DOMAIN files : files[i].name = name}
  IN files[CHOOSE i \in hits : \A j \in hits : i <= j]

\* The instant of the newest upload of that name recorded in the transfer
LatestUpload(files, name) ==
  LET hits == {i \in DOMAIN files : files[i].name = name}
  IN files[CHOOSE i \in hits : \A j \in hits : j <= i].uploadedAt

\* GET /api/excel-content?transferId=...&filename=... up to its answer from the
\* cache or its call of runExcelParser
GetExcelContent(transferId, name) ==
  /\ deployment = "express"
  /\ transferId \in DOMAIN transfers
  /\ \E i \in DOMAIN transfers[transferId].files : transfers[transferId].files[i].name = name
  /\ LET files == transfers[transferId].files
         excelFile == Find(files, name)
         cacheKey == getExcelCacheKey(transferId, name)
         hit == /\ cacheKey \in DOMAIN excelContentCache
                /\ excelContentCache[cacheKey].uploadedAt = excelFile.uploadedAt
     IN IF hit
        THEN /\ lastResponse' = [served |-> TRUE, transferId |-> transferId, name |-> name,
                                 data |-> excelContentCache[cacheKey].data,
                                 latest |-> LatestUpload(files, name)]
             /\ UNCHANGED parserRuns
        ELSE /\ cacheKey \in DOMAIN disk
             /\ Cardinality(parserRuns) < MaxParserRuns
             /\ parserRuns' = parserRuns \cup
                  {ParserRun(transferId, name, excelFile.uploadedAt, "request",
                             LatestUpload(files, name))}
             /\ UNCHANGED lastResponse
  /\ UNCHANGED <<deployment, nextId, uploadCount, transfers, patientTransfers, sessionCodes,
                 excelContentCache, disk, handlers, blobKeys, blobMapping, everMapped, lastCreated, everCancelled, mmdSessionCodes>>
  /\ UNCHANGED <<workerVars, probe, promise>>

\* GET /api/excel-content after runExcelParser: the result is cached and answered
ExcelContentParsed(run) ==
  /\ run \in parserRuns
  /\ run.kind = "request"
  /\ run.content # Unread
  /\ excelContentCache' = MapSet(excelContentCache, getExcelCacheKey(run.transferId, run.name),
                                 [uploadedAt |-> run.uploadedAt, data |-> ParsedData(run)])
  /\ lastResponse' = [served |-> TRUE, transferId |-> run.transferId, name |-> run.name,
                      data |-> ParsedData(run), latest |-> run.latest]
  /\ parserRuns' = parserRuns \ {run}
  /\ UNCHANGED <<deployment, nextId, uploadCount, transfers, patientTransfers, sessionCodes,
                 disk, handlers, blobKeys, blobMapping, everMapped, lastCreated, everCancelled, mmdSessionCodes>>
  /\ UNCHANGED <<workerVars, probe, promise>>

\* -------------------------------------------------------------------------
\* The serverless handler of POST /api/transfers, with blob storage.  Each
\* await is a point where another invocation can run.
\* -------------------------------------------------------------------------
NoTransfer == 0

\* The handler up to the creation of the new transfer record: generate the id,
\* global.__mmd_transfers.set, and wait for saveTransferToBlob
CreateRecord(h, store) ==
  /\ transfers' = MapSet(store, nextId + 1, NewTransfer)
  /\ nextId' = nextId + 1
  /\ lastCreated' = MapSet(lastCreated, h.patientId, nextId + 1)
  /\ handlers' = (handlers \ {h}) \cup
       {[h EXCEPT !.at = "saveTransferToBlob", !.transferId = nextId + 1]}
  /\ UNCHANGED <<everCancelled, mmdSessionCodes>>

\* The handler up to its first await
PostStart(req, patientId) ==
  /\ deployment = "serverless"
  /\ Cardinality(handlers) < MaxHandlers
  /\ nextId + Cardinality(handlers) < MaxTransfers
  /\ \A h \in handlers : h.req # req
  /\ IF patientId \in DOMAIN patientTransfers
     THEN /\ transfers' = MapDelete(transfers, patientTransfers[patientId])
          /\ patientTransfers' = MapDelete(patientTransfers, patientId)
          /\ handlers' = handlers \cup
               {[req |-> req, patientId |-> patientId, at |-> "deleteTransferFromBlob",
                 existing |-> patientTransfers[patientId], transferId |-> NoTransfer]}
     ELSE /\ handlers' = handlers \cup
               {[req |-> req, patientId |-> patientId, at |-> "loadTransferFromBlob",
                 existing |-> NoTransfer, transferId |-> NoTransfer]}
          /\ UNCHANGED <<transfers, patientTransfers>>
  /\ UNCHANGED <<deployment, nextId, uploadCount, sessionCodes, excelContentCache, disk, parserRuns,
                 lastResponse, blobKeys, blobMapping, everMapped, lastCreated, everCancelled, mmdSessionCodes>>
  /\ UNCHANGED <<workerVars, probe, promise>>

\* loadTransferFromBlob of the patient's mapping returns
PostLoaded(h) ==
  /\ h \in handlers
  /\ h.at = "loadTransferFromBlob"
  /\ IF h.patientId \in DOMAIN blobMapping
     THEN LET stored == blobMapping[h.patientId]
          IN /\ transfers' = MapDelete(transfers, stored)
             /\ patientTransfers' = MapDelete(patientTransfers, h.patientId)
             /\ everMapped' = everMapped \cup {stored}
             /\ handlers' = (handlers \ {h}) \cup
                  {[h EXCEPT !.at = "deleteTransferFromBlob", !.existing = stored]}
             /\ UNCHANGED <<nextId, lastCreated, everCancelled, mmdSessionCodes>>
     ELSE /\ CreateRecord(h, transfers)
          /\ UNCHANGED <<patientTransfers, everMapped>>
  /\ UNCHANGED <<deployment, uploadCount, sessionCodes, excelContentCache, disk, parserRuns,
                 lastResponse, blobKeys, blobMapping>>
  /\ UNCHANGED <<workerVars, probe, promise>>

\* deleteTransferFromBlob(existingTransferId) returns
PostBlobDeleted(h) ==
  /\ h \in handlers
  /\ h.at = "deleteTransferFromBlob"
  /\ blobKeys' = blobKeys \ {h.existing}
  /\ handlers' = (handlers \ {h}) \cup {[h EXCEPT !.at = "deletePatientTransferMapping"]}
  /\ UNCHANGED <<deployment, nextId, uploadCount, transfers, patientTransfers, sessionCodes,
                 excelContentCache, disk, parserRuns, lastResponse, blobMapping, everMapped,
                 lastCreated, everCancelled, mmdSessionCodes>>
  /\ UNCHANGED <<workerVars, probe, promise>>

\* deletePatientTransferMapping(patientId) returns; the new record is created
PostMappingDeleted(h) ==
  /\ h \in handlers
  /\ h.at = "deletePatientTransferMapping"
  /\ blobMapping' = MapDelete(blobMapping, h.patientId)
  /\ CreateRecord(h, transfers)
  /\ UNCHANGED <<deployment, uploadCount, patientTransfers, sessionCodes, excelContentCache, disk,
                 parserRuns, lastResponse, blobKeys, everMapped>>
  /\ UNCHANGED <<workerVars, probe, promise>>

\* saveTransferToBlob(transferId, transfer) returns; the mapping is set in memory
PostTransferSaved(h) ==
  /\ h \in handlers
  /\ h.at = "saveTransferToBlob"
  /\ blobKeys' = blobKeys \cup {h.transferId}
  /\ patientTransfers' = MapSet(patientTransfers, h.patientId, h.transferId)
  /\ everMapped' = everMapped \cup {h.transferId}
  /\ handlers' = (handlers \ {h}) \cup {[h EXCEPT !.at = "saveMapping"]}
  /\ UNCHANGED <<deployment, nextId, uploadCount, transfers, sessionCodes, excelContentCache, disk,
                 parserRuns, lastResponse, blobMapping, lastCreated, everCancelled, mmdSessionCodes>>
  /\ UNCHANGED <<workerVars, probe, promise>>

\* saveTransferToBlob of the mapping returns; the handler answers
PostMappingSaved(h) ==
  /\ h \in handlers
  /\ h.at = "saveMapping"
  /\ blobMapping' = MapSet(blobMapping, h.patientId, h.transferId)
  /\ handlers' = handlers \ {h}
  /\ UNCHANGED <<deployment, nextId, uploadCount, transfers, patientTransfers, sessionCodes,
                 excelContentCache, disk, parserRuns, lastResponse, blobKeys, everMapped,
                 lastCreated, everCancelled, mmdSessionCodes>>
  /\ UNCHANGED <<workerVars, probe, promise>>

InitServer ==
  /\ pc = "init"
  /\ meta \in Metas
  /\ aggregation = NoAggregation
  /\ sheetCount = 0
  /\ sheetIndex = 0
  /\ descriptors = <<>>
  /\ rowsLeft = 0
  /\ rowMeta = [sheetName |-> "", rowIndex |-> 0]
  /\ messages = <<>>
  /\ appended = [k \in TrendKeys |-> <<>>]
  /\ accepted = <<>>
  /\ probe = NoProbe
  /\ deployment \in {"express", "serverless"}
  /\ ServerIdle

NextServer ==
  \/ \E patientId \in Patients, code \in Codes : GetApiTransfers(patientId, code)
  \/ \E patientId \in Patients \cup {NoPatient}, code \in Codes : PostApiTransfers(patientId, code)
  \/ \E transferId \in 1 .. nextId, name \in Filenames : Upload(transferId, name)
  \/ \E run \in parserRuns : WorkerReads(run)
  \/ \E run \in parserRuns : PreloadDone(run)
  \/ \E transferId \in DOMAIN transfers, name \in Filenames : GetExcelContent(transferId, name)
  \/ \E run \in parserRuns : ExcelContentParsed(run)
  \/ \E req \in 1 .. MaxHandlers, patientId \in Patients : PostStart(req, patientId)
  \/ \E h \in handlers : PostLoaded(h)
  \/ \E h \in handlers : PostBlobDeleted(h)
  \/ \E h \in handlers : PostMappingDeleted(h)
  \/ \E h \in handlers : PostTransferSaved(h)
  \/ \E h \in handlers : PostMappingSaved(h)

SpecServer == InitServer /\ [][NextServer]_vars

\* -------------------------------------------------------------------------
\* The session store of the serverless API (sessionStore.js).  Each exported
\* function is one step; sessions do not expire.  global.__mmd_sessionTransfers
\* holds transferId -> code for exactly the stored sessions.
\* -------------------------------------------------------------------------
MaxSessions == 1

SESSION_STAGES == {"waiting", "initiated", "bankid", "approved", "uploading", "uploaded", "cancelled"}

\* { ...record, ...fields }
Merge(record, fields) ==
  [k \in DOMAIN record \cup DOMAIN fields |-> IF k \in DOMAIN fields THEN fields[k] ELSE record[k]]

\* updateTransferMeta(transferId, updater) for an updater that sets the given
\* fields: nothing without a transfer record
updateTransferMeta(ts, transferId, fields) ==
  IF transferId \in DOMAIN ts THEN MapSet(ts, transferId, Merge(ts[transferId], fields)) ELSE ts

\* removeSessionForTransfer(transferId): the session of the transfer leaves
\* the store
removeSessionForTransfer(sessions, transferId) ==
  [c \in {d \in DOMAIN sessions : sessions[d].transferId # transferId} |-> sessions[c]]

\* registerSession({ transferId }); code is the result of generateSessionCode
registerSession(transferId, code) ==
  /\ deployment = "serverless"
  /\ transferId \in DOMAIN transfers
  /\ LET removed == removeSessionForTransfer(mmdSessionCodes, transferId)
         session == [code |-> code, transferId |-> transferId, stage |-> "waiting",
                     patientVerified |-> FALSE, doctorVerified |-> FALSE]
     IN /\ code \notin DOMAIN removed
        /\ mmdSessionCodes' = MapSet(removed, code, session)
        /\ transfers' = updateTransferMeta(transfers, transferId, [sessionCode |-> code])
  /\ UNCHANGED <<deployment, nextId, uploadCount, patientTransfers, sessionCodes, excelContentCache,
                 disk, parserRuns, lastResponse, handlers, blobKeys, blobMapping, everMapped,
                 lastCreated, everCancelled>>
  /\ UNCHANGED <<workerVars, probe, promise>>

\* updateSessionStage(code, stage)
updateSessionStage(code, stage) ==
  /\ deployment = "serverless"
  /\ stage \in SESSION_STAGES
  /\ code \in DOMAIN mmdSessionCodes
  /\ LET current == mmdSessionCodes[code]
         next == [current EXCEPT
                    !.stage = stage,
                    !.patientVerified = IF stage = "approved" THEN TRUE
                                        ELSE IF stage = "waiting" THEN FALSE ELSE @]
     IN /\ mmdSessionCodes' = MapSet(mmdSessionCodes, code, next)
        /\ transfers' = updateTransferMeta(transfers, next.transferId,
                            [patientVerified |-> next.patientVerified,
                             sessionStage |-> stage,
                             status |-> IF stage = "cancelled" THEN "cancelled"
                                        ELSE transfers[next.transferId].status])
  /\ UNCHANGED <<deployment, nextId, uploadCount, patientTransfers, sessionCodes, excelContentCache,
                 disk, parserRuns, lastResponse, handlers, blobKeys, blobMapping, everMapped,
                 lastCreated, everCancelled>>
  /\ UNCHANGED <<workerVars, probe, promise>>

\* updateDoctorVerification(code, verified)
updateDoctorVerification(code, verified) ==
  /\ deployment = "serverless"
  /\ code \in DOMAIN mmdSessionCodes
  /\ mmdSessionCodes' = MapSet(mmdSessionCodes, code,
                               [mmdSessionCodes[code] EXCEPT !.doctorVerified = verified])
  /\ transfers' = updateTransferMeta(transfers, mmdSessionCodes[code].transferId,
                                     [doctorVerified |-> verified])
  /\ UNCHANGED <<deployment, nextId, uploadCount, patientTransfers, sessionCodes, excelContentCache,
                 disk, parserRuns, lastResponse, handlers, blobKeys, blobMapping, everMapped,
                 lastCreated, everCancelled>>
  /\ UNCHANGED <<workerVars, probe, promise>>

\* markPatientVerified(code, verified)
markPatientVerified(code, verified) ==
  /\ deployment = "serverless"
  /\ code \in DOMAIN mmdSessionCodes
  /\ mmdSessionCodes' = MapSet(mmdSessionCodes, code,
                               [mmdSessionCodes[code] EXCEPT
                                  !.patientVerified = verified,
                                  !.stage = IF verified THEN "approved" ELSE @])
  /\ transfers' = updateTransferMeta(transfers, mmdSessionCodes[code].transferId,
                                     [patientVerified |-> verified])
  /\ UNCHANGED <<deployment, nextId, uploadCount, patientTransfers, sessionCodes, excelContentCache,
                 disk, parserRuns, lastResponse, handlers, blobKeys, blobMapping, everMapped,
                 lastCreated, everCancelled>>
  /\ UNCHANGED <<workerVars, probe, promise>>

\* The store with a record for each of MaxSessions transfers and no session
InitSession ==
  /\ pc = "init"
  /\ meta \in Metas
  /\ aggregation = NoAggregation
  /\ sheetCount = 0
  /\ sheetIndex = 0
  /\ descriptors = <<>>
  /\ rowsLeft = 0
  /\ rowMeta = [sheetName |-> "", rowIndex |-> 0]
  /\ messages = <<>>
  /\ appended = [k \in TrendKeys |-> <<>>]
  /\ accepted = <<>>
  /\ probe = NoProbe
  /\ promise = Pending
  /\ deployment = "serverless"
  /\ nextId = MaxSessions
  /\ uploadCount = 0
  /\ transfers = [id \in 1 .. MaxSessions |-> NewTransfer]
  /\ patientTransfers = EmptyMap
  /\ sessionCodes = EmptyMap
  /\ excelContentCache = EmptyMap
  /\ disk = EmptyMap
  /\ parserRuns = {}
  /\ lastResponse = NoResponse
  /\ handlers = {}
  /\ blobKeys = 1 .. MaxSessions
  /\ blobMapping = EmptyMap
  /\ everMapped = {}
  /\ lastCreated = EmptyMap
  /\ everCancelled = EmptyMap
  /\ mmdSessionCodes = EmptyMap

NextSession ==
  \/ \E transferId \in 1 .. MaxSessions, code \in 1 .. (MaxSessions + 1) : registerSession(transferId, code)
  \/ \E code \in DOMAIN mmdSessionCodes, stage \in SESSION_STAGES : updateSessionStage(code, stage)
  \/ \E code \in DOMAIN mmdSessionCodes, verified \in BOOLEAN : updateDoctorVerification(code, verified)
  \/ \E code \in DOMAIN mmdSessionCodes, verified \in BOOLEAN : markPatientVerified(code, verified)

SpecSession == InitSession /\ [][NextSession]_vars

\* -------------------------------------------------------------------------
\* The express server under creation, upload, completion and cancellation
\* requests for transfers without patient
\* -------------------------------------------------------------------------
InitCancel == InitServer /\ deployment = "express"

NextCancel ==
  \/ \E code \in Codes : PostApiTransfers(NoPatient, code)
  \/ \E transferId \in 1 .. nextId, name \in Filenames : Upload(transferId, name)
  \/ \E transferId \in 1 .. nextId : PostApiComplete(transferId)
  \/ \E transferId \in 1 .. nextId : cancelTransfer(transferId)

SpecCancel == InitCancel /\ [][NextCancel]_vars

\* -------------------------------------------------------------------------
\* C13: whenever no creation request is in progress, each patient that had a
\* transfer created is mapped to the transfer created last for it, and every
\* transfer that was mapped to a patient before is gone from the transfers
\* store together with its session codes and its cached Excel parses.
\* -------------------------------------------------------------------------
C13_ReplacedTransferIsGone ==
  handlers = {} =>
    /\ \A p \in DOMAIN lastCreated :
         p \in DOMAIN patientTransfers /\ patientTransfers[p] = lastCreated[p]
    /\ \A t \in everMapped \ Range(patientTransfers) :
         /\ t \notin DOMAIN transfers
         /\ \A c \in DOMAIN sessionCodes : sessionCodes[c].transferId # t
         /\ \A k \in DOMAIN excelContentCache : k[1] # t

\* -------------------------------------------------------------------------
\* C14: an answer of GET /api/excel-content for a transfer and a file name
\* carries the parse of the newest upload of that name that was recorded in
\* the transfer when the request arrived, or of a newer one; the parse of
\* an earlier upload is not served.  (The fallback for a file that is gone
\* is left out.)
\* -------------------------------------------------------------------------
C14_NewestUploadIsServed ==
  (lastResponse.served /\ lastResponse.data.content # Missing) =>
    lastResponse.data.content >= lastResponse.latest

\* The normalized matchers of the registry that the normalized header contains,
\* as pairs of registry position and matcher position
ContainedKeywords(header) ==
  {ij \in {<<i, j>> : i \in DOMAIN MATCHERS, j \in 1 .. 5} :
     /\ ij[2] \in DOMAIN MATCHERS[ij[1]]
     /\ Includes(normalizeText(header), normalizeText(MATCHERS[ij[1]][ij[2]]))}

KeywordLength(ij) == Len(normalizeText(MATCHERS[ij[1]][ij[2]]))

Chars_steg == <<"s", "t", "e", "g">>
Chars_SystolisktBlodtryck ==
  <<"S", "y", "s", "t", "o", "l", "i", "s", "k", "t", " ", "b", "l", "o", "d", "t", "r", "y", "c", "k">>
Chars_BlodtryckSys == <<"b", "l", "o", "d", "t", "r", "y", "c", "k", " ", "s", "y", "s">>

\* C21: matchParameter returns no match exactly when the normalized header
\* contains no keyword of the registry, and otherwise the parameter that owns
\* a keyword of greatest normalized length among the contained keywords,
\* wherever that parameter stands in the registry; "steg" gives steps and a
\* header with "systoliskt" and "blodtryck" gives bloodPressureSys.
C21_LongestKeywordWins ==
  probe.done =>
    LET contained == ContainedKeywords(probe.header)
    IN /\ (probe.result = "none") <=> (contained = {})
       /\ contained # {} =>
            \E a \in contained :
              /\ PARAMETER_MAP[a[1]].key = probe.result
              /\ \A b \in contained : KeywordLength(a) >= KeywordLength(b)
       /\ probe.header = Chars_steg => probe.result = "steps"
       /\ probe.header = Chars_SystolisktBlodtryck => probe.result = "bloodPressureSys"

\* A header whose longest keyword belongs to a parameter that stands later in
\* the registry than the owner of another contained keyword
C21_Witness ==
  /\ probe.done
  /\ probe.header = Chars_BlodtryckSys
  /\ probe.result = "bloodPressureCombined"

\* The last column of the sheet of a column probe: its position, its header
\* label and the cell k rows under the header row
ProbedColumn == Len(probe.descriptors)

ProbedLabel == probe.descriptors[ProbedColumn].header

CellUnderHeader(k) ==
  IF probe.headerIndex + 1 + k <= Len(probe.rows)
  THEN CellAt(probe.rows[probe.headerIndex + 1 + k], ProbedColumn)
  ELSE NullCell

NoRoleKeyword(label) ==
  /\ ~SomeIncluded(DATETIME_KEYWORDS, normalizeText(label))
  /\ ~SomeIncluded(DATE_KEYWORDS, normalizeText(label))
  /\ ~SomeIncluded(TIME_KEYWORDS, normalizeText(label))

\* The cells of the probed column in the rows under the header, all of them
CellsUnderHeader ==
  {CellUnderHeader(k) : k \in 1 .. (Len(probe.rows) - (probe.headerIndex + 1))}

\* C22: a column whose header holds no role keyword and matches no parameter
\* gets its role from the cells sampled under the header: date when one of
\* them parses as a date, otherwise time when one parses as a time, otherwise
\* value; for a blank header cell as for an unrecognised header text.
C22_RoleInferredFromSamples ==
  (/\ probe.done
   /\ NoRoleKeyword(ProbedLabel)
   /\ ContainedKeywords(ProbedLabel) = {}
   /\ Len(probe.rows) - (probe.headerIndex + 1) <= 2)
  => probe.descriptors[ProbedColumn].role =
       (IF \E cell \in CellsUnderHeader : parseDateValue(cell).ok THEN "date"
        ELSE IF \E cell \in CellsUnderHeader : parseTimeValue(cell).ok THEN "time"
        ELSE "value")

\* The first non-empty cells of the probed column under the header, up to nine
FirstNonEmptyCells ==
  LET below == [k \in 1 .. (Len(probe.rows) - (probe.headerIndex + 1)) |-> CellUnderHeader(k)]
      filled == SelectSeq(below, LAMBDA cell : ~IsBlank(cell))
  IN {filled[i] : i \in 1 .. Min(Len(filled), 9)}

\* The non-empty cells of the probed column in the nine rows under the header
CellsInNineRows == {cell \in {CellUnderHeader(k) : k \in 1 .. 9} : ~IsBlank(cell)}

\* The parameter that owns the keyword matchParameter keeps for the label
OwnerByHeader(label) ==
  PARAMETER_MAP[(CHOOSE a \in ContainedKeywords(label) :
                   \A b \in ContainedKeywords(label) :
                     \/ KeywordLength(a) > KeywordLength(b)
                     \/ (KeywordLength(a) = KeywordLength(b) /\ a[1] <= b[1]))[1]].key

\* C23 as stated: a column of role value without header parameter match is
\* matched to bloodPressureCombined exactly when one of its first nine
\* non-empty cells under the header, blank cells not counted, holds a
\* two/three-digit NN/NN or NN-NN pattern; a column whose header matched a
\* parameter keeps that parameter.
C23_FirstNonEmptyCellsSampled ==
  probe.done =>
    LET d == probe.descriptors[ProbedColumn]
    IN IF ContainedKeywords(ProbedLabel) # {} THEN d.matcher = OwnerByHeader(ProbedLabel)
       ELSE d.role = "value" =>
              d.matcher = (IF \E cell \in FirstNonEmptyCells : LooksLikeBloodPressure(cell)
                           THEN "bloodPressureCombined" ELSE "none")

\* C23: a column of role value without header parameter match is matched to
\* bloodPressureCombined exactly when a non-empty cell of the nine rows
\* directly under the header holds a two/three-digit NN/NN or NN-NN pattern
\* (blank cells use up the nine rows); a column whose header matched a
\* parameter keeps that parameter.
C23_NineRowsSampled ==
  probe.done =>
    LET d == probe.descriptors[ProbedColumn]
    IN IF ContainedKeywords(ProbedLabel) # {} THEN d.matcher = OwnerByHeader(ProbedLabel)
       ELSE d.role = "value" =>
              d.matcher = (IF \E cell \in CellsInNineRows : LooksLikeBloodPressure(cell)
                           THEN "bloodPressureCombined" ELSE "none")

\* Nine blank cells under an unrecognised header and a blood pressure text in
\* the tenth row: the column stays without parameter
C23_Witness ==
  /\ probe.done
  /\ ContainedKeywords(ProbedLabel) = {}
  /\ probe.descriptors[ProbedColumn].role = "value"
  /\ \A k \in 1 .. 9 : IsBlank(CellUnderHeader(k))
  /\ LooksLikeBloodPressure(CellUnderHeader(10))
  /\ probe.descriptors[ProbedColumn].matcher = "none"

\* The columns of the given role whose cell in the row of a timestamp probe
\* parses, as a date for datetime and date columns and as a time for time columns
ParsingColumns(role) ==
  {i \in DOMAIN probe.descriptors :
     /\ probe.descriptors[i].role = role
     /\ IF role = "time" THEN parseTimeValue(probe.row[i]).ok ELSE parseDateValue(probe.row[i]).ok}

FirstOf(columns) == CHOOSE i \in columns : \A j \in columns : i <= j

\* C24: the timestamp of a row is the date of the first datetime column whose
\* cell parses, whatever the date and time columns hold; otherwise the day of
\* the first date column that parses with the time of day of the first time
\* column that parses, columns of that role that do not parse being skipped;
\* and null exactly when no datetime, date or time column parses.
C24_TimestampPriority ==
  probe.done =>
    LET dts == ParsingColumns("datetime")
        ds == ParsingColumns("date")
        ts == ParsingColumns("time")
    IN /\ probe.result.ok <=> (dts # {} \/ ds # {} \/ ts # {})
       /\ dts # {} => probe.result = parseDateValue(probe.row[FirstOf(dts)])
       /\ (dts = {} /\ ds # {} /\ ts = {}) =>
            probe.result = parseDateValue(probe.row[FirstOf(ds)])
       /\ (dts = {} /\ ds # {} /\ ts # {}) =>
            probe.result.t =
              (parseDateValue(probe.row[FirstOf(ds)]).t \div TicksPerDay) * TicksPerDay
              + parseTimeValue(probe.row[FirstOf(ts)]).t
       /\ (dts = {} /\ ds = {} /\ ts # {}) =>
            probe.result.t % TicksPerDay = parseTimeValue(probe.row[FirstOf(ts)]).t

\* The first datetime column does not parse, the second does, and a date and a
\* time column parse as well: the second datetime column gives the timestamp
C24_Witness ==
  /\ probe.done
  /\ probe.descriptors[1].role = "datetime" /\ ~parseDateValue(probe.row[1]).ok
  /\ probe.descriptors[2].role = "datetime" /\ parseDateValue(probe.row[2]).ok
  /\ probe.descriptors[3].role = "date" /\ parseDateValue(probe.row[3]).ok
  /\ probe.descriptors[4].role = "time" /\ parseTimeValue(probe.row[4]).ok
  /\ parseDateValue(probe.row[3]) # parseDateValue(probe.row[2])
  /\ probe.result = parseDateValue(probe.row[2])

DynamicBefore == aggregation.dynamicData

DynamicAfter == aggregation'.dynamicData

\* The columns with a parameter match and the given label whose cell in the row
\* is not empty
WritersOf(label, row) ==
  {i \in DOMAIN descriptors :
     /\ descriptors[i].matcher # "none"
     /\ descriptors[i].header = label
     /\ CellAt(row, descriptors[i].index) # NullCell
     /\ CellAt(row, descriptors[i].index) # Str(<<>>)}

\* The number a cell parses to, or else its trimmed text
NumberOrTrimmedText(cell) ==
  IF parseNumber(cell).ok THEN Num(parseNumber(cell).n) ELSE Str(Trim(cell.s))

DynamicDataStep ==
  /\ (aggregation # NoAggregation /\ aggregation' # NoAggregation /\ pc # "rows") =>
       DynamicAfter = DynamicBefore
  /\ pc' = "posted" => messages'[1].data.dynamicData = DynamicBefore
  /\ pc = "rows" =>
       \A row \in RowsUnder(descriptors) :
         IsRowStep(row) =>
           /\ DOMAIN DynamicAfter \subseteq
                DOMAIN DynamicBefore
                \cup {descriptors[i].header : i \in {j \in DOMAIN descriptors : descriptors[j].matcher # "none"}}
           /\ \A label \in DOMAIN DynamicBefore \cup DOMAIN DynamicAfter :
                LET writers == WritersOf(label, row)
                IN IF writers = {}
                   THEN label \in DOMAIN DynamicBefore /\ label \in DOMAIN DynamicAfter
                        /\ DynamicAfter[label] = DynamicBefore[label]
                   ELSE DynamicAfter[label] =
                          NumberOrTrimmedText(
                            CellAt(row, descriptors[CHOOSE i \in writers : \A o \in writers : o <= i].index))

\* C25: dynamicData holds, per header label of a column with a parameter
\* match, the value of the last non-empty cell processed under that label over
\* all rows and sheets: the number when the cell parses as a number, its
\* trimmed text otherwise; an empty cell leaves the value as it is, and no
\* label of a column without parameter match appears.
C25_DynamicDataLastWriteWins == [][DynamicDataStep]_vars

\* The first row stored its heart rate under the label of the pulse column and
\* the second row replaced it there by a value that is out of range as a
\* heart rate
C25_Witness ==
  /\ aggregation # NoAggregation
  /\ aggregation.sampleSequence = 2
  /\ "Pulse" \in DOMAIN aggregation.dynamicData
  /\ aggregation.dynamicData["Pulse"] = Num(300)
  /\ LatestOf(aggregation.metrics, "heartRate") # NullSample
  /\ LatestOf(aggregation.metrics, "heartRate").order = 1
  /\ LatestOf(aggregation.metrics, "heartRate").value = 72
  /\ "Tidpunkt" \notin DOMAIN aggregation.dynamicData

HeartData == Result.heartData

\* C26: in a successful result heartData is a projection of the final metrics:
\* heartRate, systolicBP, diastolicBP and cholesterolLDL are the values of the
\* latest heart rate, blood pressure and LDL (null when that latest value is
\* null), heartRateOverTime has the length, order and values of the sorted
\* heart-rate trend, bloodPressureData is the sorted blood-pressure trend, and
\* ecgData and hrvData are empty.
C26_HeartDataProjectsMetrics ==
  pc = "posted" =>
    LET latest == Result.metrics.latest
        trends == Result.metrics.trends
    IN /\ HeartData.heartRate = IF latest.heartRate = NullSample THEN NullV ELSE latest.heartRate.value
       /\ HeartData.systolicBP =
            IF latest.bloodPressure = NullSample THEN NullV ELSE latest.bloodPressure.systolic
       /\ HeartData.diastolicBP =
            IF latest.bloodPressure = NullSample THEN NullV ELSE latest.bloodPressure.diastolic
       /\ HeartData.cholesterolLDL = IF latest.ldl = NullSample THEN NullV ELSE latest.ldl.value
       /\ Len(HeartData.heartRateOverTime) = Len(trends.heartRate)
       /\ \A i \in DOMAIN trends.heartRate :
            /\ HeartData.heartRateOverTime[i].value = trends.heartRate[i].value
            /\ HeartData.heartRateOverTime[i].time.instant = trends.heartRate[i].timestamp
       /\ \A i \in DOMAIN trends.heartRate :
            \A j \in DOMAIN trends.heartRate :
              i < j => trends.heartRate[i].timestamp <= trends.heartRate[j].timestamp
       /\ HeartData.bloodPressureData = trends.bloodPressure
       /\ HeartData.ecgData = <<>>
       /\ HeartData.hrvData = <<>>

\* The heart-rate trend was appended in descending order of time and the
\* timeline of the result is in ascending order
C26_Witness ==
  /\ pc = "posted"
  /\ Len(HeartData.heartRateOverTime) = 2
  /\ appended.heartRate # Result.metrics.trends.heartRate
  /\ HeartData.heartRateOverTime[1].time.instant < HeartData.heartRateOverTime[2].time.instant
  /\ HeartData.heartRate # NullV

\* The generic parameters flagged timeline-eligible in the registry
TimelineKeys == {key \in GenericKeys : PARAMETER_META(key).timeline}

\* C27: in the returned result, for every timeline-eligible generic parameter
\* with a non-empty trend, the latest value has the timestamp and the value of
\* the last entry of the sorted trend.
C27_LatestIsLastOfTrend ==
  pc = "posted" =>
    \A key \in TimelineKeys :
      LET trend == TrendOf(Result.metrics, key)
          latest == LatestOf(Result.metrics, key)
      IN trend # <<>> =>
           /\ latest # NullSample
           /\ latest.timestamp = trend[Len(trend)].timestamp
           /\ latest.value = trend[Len(trend)].value

\* Two heart rates of equal timestamp and different value: the latest value is
\* the one of the second row, the last entry of the trend
C27_Witness ==
  /\ pc = "posted"
  /\ Len(Result.metrics.trends.heartRate) = 2
  /\ Result.metrics.trends.heartRate[1].timestamp = Result.metrics.trends.heartRate[2].timestamp
  /\ Result.metrics.trends.heartRate[1].value # Result.metrics.trends.heartRate[2].value
  /\ Result.metrics.latest.heartRate.value = Result.metrics.trends.heartRate[2].value
  /\ Result.metrics.latest.heartRate.order = 2

\* One side of the blood pressure of the row is outside its range and the
\* other side is inside
OneSideOutOfRange(rowValues) ==
  /\ Has(rowValues, "systolic") /\ Has(rowValues, "diastolic")
  /\ LET sysIn == rowValues.systolic >= 40 /\ rowValues.systolic <= 300
         diaIn == rowValues.diastolic >= 20 /\ rowValues.diastolic <= 200
     IN (sysIn /\ ~diaIn) \/ (~sysIn /\ diaIn)

BpDiscardStep ==
  pc = "rows" =>
    \A row \in RowsUnder(descriptors) :
      (IsRowStep(row) /\ OneSideOutOfRange(extractRowValues(row, descriptors))) =>
        /\ BpAfter = BpBefore
        /\ BpTrendAfter = BpTrendBefore

\* C28: a row with one side of the blood pressure out of range and the other
\* in range changes nothing for blood pressure: the latest blood pressure and
\* the blood-pressure trend stay as they were and the in-range side is not
\* merged into the latest value.
C28_HalfValidPairDiscarded == [][BpDiscardStep]_vars

\* After a row with 120 over 80, a row with systolic 120 and diastolic 250 was
\* processed and stored under its labels; the blood pressure is that of the
\* first row
C28_Witness ==
  /\ aggregation # NoAggregation
  /\ aggregation.sampleSequence = 2
  /\ "Diastoliskt" \in DOMAIN aggregation.dynamicData
  /\ aggregation.dynamicData["Diastoliskt"] = Num(250)
  /\ "Systoliskt" \in DOMAIN aggregation.dynamicData
  /\ aggregation.dynamicData["Systoliskt"] = Num(120)
  /\ BpBefore # NullSample
  /\ BpBefore.order = 1
  /\ BpBefore.diastolic = 80
  /\ Len(BpTrendBefore) = 1

\* C29 as stated: once a transfer was cancelled its status is never open again
\* and no file is appended to it, whatever upload, complete and cancel requests
\* follow.
C29_CancellationIsFinal ==
  \A transferId \in DOMAIN everCancelled :
    transferId \in DOMAIN transfers =>
      /\ transfers[transferId].status # "open"
      /\ Len(transfers[transferId].files) = everCancelled[transferId]

\* C30: every stored session whose stage is approved has patientVerified set,
\* after any sequence of registerSession, updateSessionStage,
\* markPatientVerified and updateDoctorVerification calls.
C30_ApprovedImpliesPatientVerified ==
  \A code \in DOMAIN mmdSessionCodes :
    mmdSessionCodes[code].stage = "approved" => mmdSessionCodes[code].patientVerified

====
